---- MODULE Spec2Model ----
(***************************************************************************)
(* Words: the tree-walking interpreter                                    *)
(* (src/src/words/token_types/parser_token.py and                          *)
(* src/src/words/interpreter/interpret_util.py), the lexer                 *)
(* (src/src/words/lexer/lex.py), the parser                                *)
(* (src/src/words/parser and src/src/words/token_types/lexer_token.py) and *)
(* the compiler for the Cortex-M0 (src/src/words/compiler).                *)
(* Spec and SpecDictionary are runs of the interpreter, SpecLexer the      *)
(* lexing of a text, SpecParser and SpecConstructs the parsing of a token  *)
(* stream, and SpecCompiler the compiling of a program and the run of the  *)
(* assembly.                                                               *)
(*                                                                         *)
(* A run executes the top-level tokens of a program one after the other    *)
(* on an explicit stack and dictionary; every action below executes one    *)
(* top-level token, including everything that token executes inside it     *)
(* (branch bodies, loop iterations, function calls).                       *)
(***************************************************************************)
EXTENDS Integers, Sequences, FiniteSets, TLC

(***************************************************************************)
(* Bounds of the model.                                                    *)
(***************************************************************************)
\* longest initial stack handed to execute_program
MaxInitLen == 2
\* number of top-level tokens of a program
MaxSteps == 2
\* largest loop bound n of the counting loop  X n <  /  X 1 + ASSIGN X
MaxN == 9
\* The host recursion ceiling.  The program raises it to 4000
\* (sys.setrecursionlimit); the model keeps the mechanism and scales the
\* number down: a call that would occupy a frame above it raises
\* RecursionError.
RecursionLimit == 15

\* The largest number a literal may denote.  The program's is 0xFFFFFFFF
\* (the parser rejects a larger literal); the model scales it down and keeps
\* the host's integers, which have no upper end, as they are.
MaxNumber == 255

\* number of lines of a source text, and of words on a line
MaxLines == 2
MaxWords == 3

\* the most lexer tokens of a program given to the parser
MaxTokens == 6

\* the most words of a function body given to the parser
MaxBody == 5

(***************************************************************************)
(* Runtime values.  Python's bool is a subclass of int: True and False     *)
(* take part in arithmetic and comparisons as 1 and 0, but only they pass  *)
(* isinstance(_, bool).  A value is a tagged number.                       *)
(***************************************************************************)
\* every token has the same fields: value is the source's self.value (an
\* operator or an identifier), name the source's second string
\* (function_name, name, variable_name), num its number (value, count)
Tok(kind, value, name, num, a, b, has_else) ==
    [kind |-> kind, value |-> value, name |-> name, num |-> num, a |-> a, b |-> b,
     has_else |-> has_else]

NoNode == Tok("none", "", "", 0, <<>>, <<>>, FALSE)

IntV(n) == [t |-> "int", v |-> n, node |-> <<>>]

BoolV(bv) == [t |-> "bool", v |-> IF bv THEN 1 ELSE 0, node |-> <<>>]

\* the class object VariableParserToken.VarUnassigned
VarUnassigned == [t |-> "unassigned", v |-> 0, node |-> <<>>]

\* a FunctionParserToken stored in the dictionary; node holds the token, and is
\* empty in every other value
FnV(tok) == [t |-> "fn", v |-> 0, node |-> <<tok>>]

\* marks a key that is not in the dictionary
Absent == [t |-> "absent", v |-> 0, node |-> <<>>]

isinstance_bool(val) == val.t = "bool"

\* values that arithmetic and ordering are defined on (int and its subclass bool)
IsNumeric(val) == val.t \in {"int", "bool"}

Names == {"X", "Y", "F", "G"}

\* dict()
EmptyDict == [k \in Names |-> Absent]

\* name in dictionary
InDict(name, dictionary) == dictionary[name].t # "absent"

\* {**dictionary, **{name: val}}
DictWith(dictionary, name, val) == [dictionary EXCEPT ![name] = val]

(***************************************************************************)
(* Python list indexing and slicing.                                       *)
(***************************************************************************)
\* stack[-i], defined for 1 <= i <= len(stack)
FromTop(stack, i) == stack[Len(stack) - i + 1]

\* stack[:-k] for k >= 1: the empty list when len(stack) <= k
DropLast(stack, k) == SubSeq(stack, 1, Len(stack) - k)

\* stack[-k:] for k >= 1: the whole list when len(stack) <= k
TakeLast(stack, k) ==
    IF Len(stack) <= k THEN stack ELSE SubSeq(stack, Len(stack) - k + 1, Len(stack))

(***************************************************************************)
(* Parser tokens (the nodes of the AST).                                   *)
(***************************************************************************)
NumberParserToken(n) == Tok("number", "", "", n, <<>>, <<>>, FALSE)

BooleanParserToken(bv) == Tok("boolean", "", "", IF bv THEN 1 ELSE 0, <<>>, <<>>, FALSE)

MacroParserToken(function_name) == Tok("macro", "", function_name, 0, <<>>, <<>>, FALSE)

WhileParserToken(predicate, statements) == Tok("while", "", "", 0, predicate, statements, FALSE)

\* else_body is None when has_else is FALSE
IfParserToken(if_body, else_body, has_else) == Tok("if", "", "", 0, if_body, else_body, has_else)

VariableParserToken(name) == Tok("variable", name, "", 0, <<>>, <<>>, FALSE)

ValueParserToken(name) == Tok("value", name, "", 0, <<>>, <<>>, FALSE)

IdentParserToken(name) == Tok("ident", name, "", 0, <<>>, <<>>, FALSE)

ReturnParserToken(count) == Tok("return", "", "", count, <<>>, <<>>, FALSE)

FunctionParserToken(name, parameters, body) == Tok("function", "", name, 0, parameters, body, FALSE)

ArithmeticOperatorParserToken(op) == Tok("arithmetic", op, "", 0, <<>>, <<>>, FALSE)

BooleanOperatorParserToken(op) == Tok("booleanop", op, "", 0, <<>>, <<>>, FALSE)

DictionaryOperatorParserToken(op, variable_name) == Tok("dictionaryop", op, variable_name, 0, <<>>, <<>>, FALSE)

(***************************************************************************)
(* The outcome of a call.  err is "none" when the call returned (stack,    *)
(* dictionary), else the exception it raised.  trace lists the tokens      *)
(* whose execute was entered, out the values printed.  Python dictionaries *)
(* are objects: same tells whether the returned dictionary is the object   *)
(* the call was given, inmut is the content of the given object when the   *)
(* call ends (FunctionParserToken.execute writes into it).                 *)
(***************************************************************************)
Ok(stack, dictionary, same, inmut, trace, out) ==
    [stack |-> stack, dictionary |-> dictionary, same |-> same, inmut |-> inmut,
     err |-> "none", trace |-> trace, out |-> out]

Raise(err, inmut, trace, out) ==
    [stack |-> <<>>, dictionary |-> EmptyDict, same |-> FALSE, inmut |-> inmut,
     err |-> err, trace |-> trace, out |-> out]

\* a call that returns its stack and the dictionary object it was given
Pure(stack, dictionary) == Ok(stack, dictionary, TRUE, dictionary, <<>>, <<>>)

\* the outcome r of a first call followed by the outcome nxt of a call on r's result
Then(r, nxt) ==
    [stack |-> nxt.stack, dictionary |-> nxt.dictionary,
     same |-> r.same /\ nxt.same,
     inmut |-> IF r.same THEN nxt.inmut ELSE r.inmut,
     err |-> nxt.err, trace |-> r.trace \o nxt.trace, out |-> r.out \o nxt.out]

\* a call that raises err before it changed or printed anything
Fail(err, dictionary) == Raise(err, dictionary, <<>>, <<>>)

(***************************************************************************)
(* Python's operators on runtime values.  Arithmetic and ordering are      *)
(* defined on int and bool and raise TypeError on the VarUnassigned class; *)
(* == is defined on everything.                                            *)
(***************************************************************************)
TypeErrorV == [t |-> "typeerror", v |-> 0, node |-> <<>>]

PyArith(op, second_value, topmost_value) ==
    IF ~(IsNumeric(second_value) /\ IsNumeric(topmost_value)) THEN TypeErrorV
    ELSE IF op = "+" THEN IntV(second_value.v + topmost_value.v)
    ELSE IntV(second_value.v - topmost_value.v)

PyCompare(op, second_value, topmost_value) ==
    IF op = "==" THEN
        IF IsNumeric(second_value) /\ IsNumeric(topmost_value)
        THEN BoolV(second_value.v = topmost_value.v)
        ELSE BoolV(second_value.t = topmost_value.t)
    ELSE IF ~(IsNumeric(second_value) /\ IsNumeric(topmost_value)) THEN TypeErrorV
    ELSE IF op = ">" THEN BoolV(second_value.v > topmost_value.v)
    ELSE IF op = "<" THEN BoolV(second_value.v < topmost_value.v)
    ELSE IF op = ">=" THEN BoolV(second_value.v >= topmost_value.v)
    ELSE BoolV(second_value.v <= topmost_value.v)

\* return stack[:-2] + [result], dictionary
PushResult(stack, dictionary, result) ==
    IF result.t = "typeerror" THEN Fail("TypeError", dictionary)
    ELSE Pure(DropLast(stack, 2) \o <<result>>, dictionary)

(***************************************************************************)
(* execute of the tokens that execute no other token.                      *)
(***************************************************************************)
NumberParserToken_execute(tok, stack, dictionary) ==
    Pure(stack \o <<IntV(tok.num)>>, dictionary)

BooleanParserToken_execute(tok, stack, dictionary) ==
    Pure(stack \o <<BoolV(tok.num = 1)>>, dictionary)

\* a macro other than __PRINT__ falls off the end of execute and returns None,
\* which the caller fails to unpack
MacroParserToken_execute(tok, stack, dictionary) ==
    IF tok.name = "__PRINT__" THEN
        IF stack = <<>> THEN Fail("StackSizeException", dictionary)
        ELSE Ok(stack, dictionary, TRUE, dictionary, <<>>, <<FromTop(stack, 1)>>)
    ELSE Fail("TypeError", dictionary)

\* a slip: no check of the name, a second declaration replaces the binding
VariableParserToken_execute_shadowing(tok, stack, dictionary) ==
    Ok(stack, DictWith(dictionary, tok.value, VarUnassigned), FALSE, dictionary, <<>>, <<>>)

VariableParserToken_execute(tok, stack, dictionary) ==
    IF InDict(tok.value, dictionary) THEN Fail("IdentifierPreviouslyDefinedException", dictionary)
    ELSE Ok(stack, DictWith(dictionary, tok.value, VarUnassigned), FALSE, dictionary, <<>>, <<>>)

ValueParserToken_execute(tok, stack, dictionary) == Fail("RuntimeError", dictionary)

\* a slip: the first count values instead of the last
ReturnParserToken_execute_bottom(tok, stack, dictionary) ==
    IF Len(stack) < tok.num THEN Fail("StackSizeException", dictionary)
    ELSE Pure(SubSeq(stack, 1, tok.num), dictionary)

ReturnParserToken_execute(tok, stack, dictionary) ==
    IF Len(stack) < tok.num THEN Fail("StackSizeException", dictionary)
    ELSE IF tok.num = 0 THEN Pure(<<>>, dictionary)
    ELSE Pure(TakeLast(stack, tok.num), dictionary)

\* a slip: no check of the name, a second definition replaces the first
FunctionParserToken_execute_overwriting(tok, stack, dictionary) ==
    LET written == DictWith(dictionary, tok.name, FnV(tok))
    IN  Ok(stack, written, TRUE, written, <<>>, <<>>)

\* dictionary[self.name] = self writes into the dictionary object it was given
FunctionParserToken_execute(tok, stack, dictionary) ==
    IF InDict(tok.name, dictionary) THEN Fail("IdentifierPreviouslyDefinedException", dictionary)
    ELSE LET written == DictWith(dictionary, tok.name, FnV(tok))
         IN  Ok(stack, written, TRUE, written, <<>>, <<>>)

\* a slip: the operands taken in the opposite order
ArithmeticOperatorParserToken_execute_swapped(tok, stack, dictionary) ==
    IF Len(stack) < 2 THEN Fail("StackSizeException", dictionary)
    ELSE LET topmost_value == FromTop(stack, 1)
             second_value == FromTop(stack, 2)
         IN  IF tok.value \in {"+", "-"}
             THEN PushResult(stack, dictionary, PyArith(tok.value, topmost_value, second_value))
             ELSE Fail("NotImplementedError", dictionary)

\* a slip: results kept within the range of a literal, as an unsigned
\* machine integer would be
ArithmeticOperatorParserToken_execute_wrapping(tok, stack, dictionary) ==
    IF Len(stack) < 2 THEN Fail("StackSizeException", dictionary)
    ELSE LET topmost_value == FromTop(stack, 1)
             second_value == FromTop(stack, 2)
             result == PyArith(tok.value, second_value, topmost_value)
         IN  IF tok.value \in {"+", "-"}
             THEN PushResult(stack, dictionary,
                             IF result.t = "int" THEN IntV(result.v % (MaxNumber + 1)) ELSE result)
             ELSE Fail("NotImplementedError", dictionary)

ArithmeticOperatorParserToken_execute(tok, stack, dictionary) ==
    IF Len(stack) < 2 THEN Fail("StackSizeException", dictionary)
    ELSE LET topmost_value == FromTop(stack, 1)
             second_value == FromTop(stack, 2)
         IN  IF tok.value \in {"+", "-"}
             THEN PushResult(stack, dictionary, PyArith(tok.value, second_value, topmost_value))
             ELSE Fail("NotImplementedError", dictionary)

\* a slip: < computed as <=
BooleanOperatorParserToken_execute_inclusive(tok, stack, dictionary) ==
    IF Len(stack) < 2 THEN Fail("StackSizeException", dictionary)
    ELSE LET topmost_value == FromTop(stack, 1)
             second_value == FromTop(stack, 2)
         IN  IF tok.value \in {"==", ">", "<", ">=", "<="}
             THEN PushResult(stack, dictionary,
                             PyCompare(IF tok.value = "<" THEN "<=" ELSE tok.value,
                                       second_value, topmost_value))
             ELSE Fail("NotImplementedError", dictionary)

BooleanOperatorParserToken_execute(tok, stack, dictionary) ==
    IF Len(stack) < 2 THEN Fail("StackSizeException", dictionary)
    ELSE LET topmost_value == FromTop(stack, 1)
             second_value == FromTop(stack, 2)
         IN  IF tok.value \in {"==", ">", "<", ">=", "<="}
             THEN PushResult(stack, dictionary, PyCompare(tok.value, second_value, topmost_value))
             ELSE Fail("NotImplementedError", dictionary)

\* a slip: no check of the stack size, stack[-1] of an empty list raises IndexError
DictionaryOperatorParserToken_execute_unchecked(tok, stack, dictionary) ==
    IF tok.value = "ASSIGN" THEN
        IF Len(stack) < 1 THEN Fail("IndexError", dictionary)
        ELSE LET topmost_value == FromTop(stack, 1)
             IN  Ok(DropLast(stack, 1), DictWith(dictionary, tok.name, topmost_value),
                    FALSE, dictionary, <<>>, <<>>)
    ELSE Fail("NotImplementedError", dictionary)

\* a slip: assignment treated like a declaration, a bound name is an error
DictionaryOperatorParserToken_execute_write_once(tok, stack, dictionary) ==
    IF tok.value = "ASSIGN" THEN
        IF Len(stack) < 1 THEN Fail("StackSizeException", dictionary)
        ELSE IF InDict(tok.name, dictionary)
             THEN Fail("IdentifierPreviouslyDefinedException", dictionary)
        ELSE LET topmost_value == FromTop(stack, 1)
             IN  Ok(DropLast(stack, 1), DictWith(dictionary, tok.name, topmost_value),
                    FALSE, dictionary, <<>>, <<>>)
    ELSE Fail("NotImplementedError", dictionary)

DictionaryOperatorParserToken_execute(tok, stack, dictionary) ==
    IF tok.value = "ASSIGN" THEN
        IF Len(stack) < 1 THEN Fail("StackSizeException", dictionary)
        ELSE LET topmost_value == FromTop(stack, 1)
             IN  Ok(DropLast(stack, 1), DictWith(dictionary, tok.name, topmost_value),
                    FALSE, dictionary, <<>>, <<>>)
    ELSE Fail("NotImplementedError", dictionary)

(***************************************************************************)
(* The tokens that execute other tokens, and the interpreter loop.  depth  *)
(* is the frame the call occupies on the host's call stack: every call     *)
(* runs one frame above its caller and no call returns before the calls it *)
(* makes have returned.                                                    *)
(***************************************************************************)
RECURSIVE execute(_, _, _, _)
RECURSIVE exhaustive_interpret_tokens(_, _, _, _)
RECURSIVE rec_setup_parameters(_, _, _, _, _, _)
RECURSIVE rec_setup_parameters_last_first(_, _, _, _, _, _)
RECURSIVE rec_setup_parameters_no_strip(_, _, _, _, _, _)

\* a slip: the top of the stack goes to the last declared parameter
rec_setup_parameters_last_first(self, stack, stack_, dictionary_, parameters, depth) ==
    IF depth > RecursionLimit THEN [stack |-> <<>>, dictionary |-> dictionary_, err |-> "RecursionError"]
    ELSE IF parameters = <<>> THEN [stack |-> stack_, dictionary |-> dictionary_, err |-> "none"]
    ELSE IF Len(stack) < Len(self.a)
         THEN [stack |-> <<>>, dictionary |-> dictionary_, err |-> "StackSizeException"]
    ELSE rec_setup_parameters_last_first(self, stack, DropLast(stack_, 1),
                              DictWith(dictionary_, parameters[Len(parameters)].value, FromTop(stack_, 1)),
                              SubSeq(parameters, 1, Len(parameters) - 1), depth + 1)

\* a slip: the bound value is not taken off the stack
rec_setup_parameters_no_strip(self, stack, stack_, dictionary_, parameters, depth) ==
    IF depth > RecursionLimit THEN [stack |-> <<>>, dictionary |-> dictionary_, err |-> "RecursionError"]
    ELSE IF parameters = <<>> THEN [stack |-> stack_, dictionary |-> dictionary_, err |-> "none"]
    ELSE IF Len(stack) < Len(self.a)
         THEN [stack |-> <<>>, dictionary |-> dictionary_, err |-> "StackSizeException"]
    ELSE rec_setup_parameters_no_strip(self, stack, stack_,
                              DictWith(dictionary_, parameters[1].value, FromTop(stack_, 1)),
                              Tail(parameters), depth + 1)

\* the inner function of setup_parameters; stack and self are the enclosing
\* call's, stack_, dictionary_ and parameters its own
rec_setup_parameters(self, stack, stack_, dictionary_, parameters, depth) ==
    IF depth > RecursionLimit THEN [stack |-> <<>>, dictionary |-> dictionary_, err |-> "RecursionError"]
    ELSE IF parameters = <<>> THEN [stack |-> stack_, dictionary |-> dictionary_, err |-> "none"]
    ELSE IF Len(stack) < Len(self.a)
         THEN [stack |-> <<>>, dictionary |-> dictionary_, err |-> "StackSizeException"]
    ELSE rec_setup_parameters(self, stack, DropLast(stack_, 1),
                              DictWith(dictionary_, parameters[1].value, FromTop(stack_, 1)),
                              Tail(parameters), depth + 1)

FunctionParserToken_setup_parameters(self, stack, dictionary, depth) ==
    IF depth > RecursionLimit THEN [stack |-> <<>>, dictionary |-> dictionary, err |-> "RecursionError"]
    ELSE rec_setup_parameters(self, stack, stack, dictionary, self.a, depth + 1)

\* a slip: only the body's stack is returned
FunctionParserToken_visit_body_only(self, stack, dictionary, depth) ==
    IF depth > RecursionLimit THEN Fail("RecursionError", dictionary)
    ELSE LET sp == FunctionParserToken_setup_parameters(self, stack, dictionary, depth + 1)
         IN  IF sp.err # "none" THEN Fail(sp.err, dictionary)
             ELSE LET body == exhaustive_interpret_tokens(self.b, sp.stack, sp.dictionary, depth + 1)
                  IN  IF body.err # "none" THEN Raise(body.err, dictionary, body.trace, body.out)
                      ELSE Ok(body.stack, dictionary, TRUE, dictionary, body.trace, body.out)

\* a slip: the dictionary of the body is handed back to the caller
FunctionParserToken_visit_leaking(self, stack, dictionary, depth) ==
    IF depth > RecursionLimit THEN Fail("RecursionError", dictionary)
    ELSE LET sp == FunctionParserToken_setup_parameters(self, stack, dictionary, depth + 1)
         IN  IF sp.err # "none" THEN Fail(sp.err, dictionary)
             ELSE LET body == exhaustive_interpret_tokens(self.b, sp.stack, sp.dictionary, depth + 1)
                  IN  IF body.err # "none" THEN Raise(body.err, dictionary, body.trace, body.out)
                      ELSE Ok(sp.stack \o body.stack, body.dictionary, FALSE, dictionary,
                              body.trace, body.out)

\* the body runs on a copy of the dictionary; the caller gets its own
\* dictionary object back
FunctionParserToken_visit(self, stack, dictionary, depth) ==
    IF depth > RecursionLimit THEN Fail("RecursionError", dictionary)
    ELSE LET sp == FunctionParserToken_setup_parameters(self, stack, dictionary, depth + 1)
         IN  IF sp.err # "none" THEN Fail(sp.err, dictionary)
             ELSE LET body == exhaustive_interpret_tokens(self.b, sp.stack, sp.dictionary, depth + 1)
                  IN  IF body.err # "none" THEN Raise(body.err, dictionary, body.trace, body.out)
                      ELSE Ok(sp.stack \o body.stack, dictionary, TRUE, dictionary,
                              body.trace, body.out)

\* a slip: no test for a function, whatever is bound is pushed
IdentParserToken_execute_pushing(tok, stack, dictionary, depth) ==
    IF InDict(tok.value, dictionary)
    THEN Pure(stack \o <<dictionary[tok.value]>>, dictionary)
    ELSE Fail("UndefinedIdentifierException", dictionary)

IdentParserToken_execute(tok, stack, dictionary, depth) ==
    IF InDict(tok.value, dictionary) THEN
        IF dictionary[tok.value].t = "fn"
        THEN FunctionParserToken_visit(dictionary[tok.value].node[1], stack, dictionary, depth + 1)
        ELSE Pure(stack \o <<dictionary[tok.value]>>, dictionary)
    ELSE Fail("UndefinedIdentifierException", dictionary)

\* a slip: the branches exchanged
IfParserToken_execute_swapped(tok, stack, dictionary, depth) ==
    IF stack = <<>> THEN Fail("IndexError", dictionary)
    ELSE LET predicate == FromTop(stack, 1)
         IN  IF ~isinstance_bool(predicate) THEN Fail("InvalidPredicateException", dictionary)
             ELSE IF predicate.v = 0
                  THEN exhaustive_interpret_tokens(tok.a, DropLast(stack, 1), dictionary, depth + 1)
             ELSE IF tok.has_else /\ tok.b # <<>>
                  THEN exhaustive_interpret_tokens(tok.b, DropLast(stack, 1), dictionary, depth + 1)
             ELSE Pure(DropLast(stack, 1), dictionary)

\* else_body is skipped when it is None and when it is the empty list
IfParserToken_execute(tok, stack, dictionary, depth) ==
    IF stack = <<>> THEN Fail("IndexError", dictionary)
    ELSE LET predicate == FromTop(stack, 1)
         IN  IF ~isinstance_bool(predicate) THEN Fail("InvalidPredicateException", dictionary)
             ELSE IF predicate.v = 1
                  THEN exhaustive_interpret_tokens(tok.a, DropLast(stack, 1), dictionary, depth + 1)
             ELSE IF tok.has_else /\ tok.b # <<>>
                  THEN exhaustive_interpret_tokens(tok.b, DropLast(stack, 1), dictionary, depth + 1)
             ELSE Pure(DropLast(stack, 1), dictionary)

\* the predicate's outcome is element [0][0] of what evaluating the predicate
\* returns: the first (bottom) element of the resulting stack.  The stack and
\* the dictionary returned by the predicate are dropped; what the predicate
\* wrote into the dictionary object it was given stays.
WhileParserToken_execute(tok, stack, dictionary, depth) ==
    LET p == exhaustive_interpret_tokens(tok.a, stack, dictionary, depth + 1)
        after_predicate == Ok(stack, p.inmut, TRUE, p.inmut, p.trace, p.out)
    IN  IF p.err # "none" THEN Raise(p.err, p.inmut, p.trace, p.out)
        ELSE IF p.stack = <<>> THEN Raise("IndexError", p.inmut, p.trace, p.out)
        ELSE LET predicate_outcome == p.stack[1]
             IN  IF ~isinstance_bool(predicate_outcome)
                 THEN Raise("InvalidPredicateException", p.inmut, p.trace, p.out)
                 ELSE IF predicate_outcome.v = 1
                 THEN LET statements == Then(after_predicate,
                              exhaustive_interpret_tokens(tok.b, stack, p.inmut, depth + 1))
                      IN  IF statements.err # "none" THEN statements
                          ELSE Then(statements,
                                    execute(tok, statements.stack, statements.dictionary, depth + 1))
                 ELSE after_predicate

\* token.execute(stack, dictionary): dispatch on the token's class
execute(tok, stack, dictionary, depth) ==
    IF depth > RecursionLimit THEN Fail("RecursionError", dictionary)
    ELSE LET r == CASE tok.kind = "number" -> NumberParserToken_execute(tok, stack, dictionary)
                    [] tok.kind = "boolean" -> BooleanParserToken_execute(tok, stack, dictionary)
                    [] tok.kind = "macro" -> MacroParserToken_execute(tok, stack, dictionary)
                    [] tok.kind = "while" -> WhileParserToken_execute(tok, stack, dictionary, depth)
                    [] tok.kind = "if" -> IfParserToken_execute(tok, stack, dictionary, depth)
                    [] tok.kind = "variable" -> VariableParserToken_execute(tok, stack, dictionary)
                    [] tok.kind = "value" -> ValueParserToken_execute(tok, stack, dictionary)
                    [] tok.kind = "ident" -> IdentParserToken_execute(tok, stack, dictionary, depth)
                    [] tok.kind = "return" -> ReturnParserToken_execute(tok, stack, dictionary)
                    [] tok.kind = "function" -> FunctionParserToken_execute(tok, stack, dictionary)
                    [] tok.kind = "arithmetic" -> ArithmeticOperatorParserToken_execute(tok, stack, dictionary)
                    [] tok.kind = "booleanop" -> BooleanOperatorParserToken_execute(tok, stack, dictionary)
                    [] tok.kind = "dictionaryop" -> DictionaryOperatorParserToken_execute(tok, stack, dictionary)
         IN  [r EXCEPT !.trace = <<tok>> \o @]

exhaustive_interpret_tokens(tokens_, stack_, dictionary_, depth) ==
    IF depth > RecursionLimit THEN Fail("RecursionError", dictionary_)
    ELSE IF tokens_ # <<>>
         THEN LET r == execute(Head(tokens_), stack_, dictionary_, depth + 1)
              IN  IF r.err # "none" THEN r
                  ELSE Then(r, exhaustive_interpret_tokens(Tail(tokens_), r.stack, r.dictionary, depth + 1))
         ELSE Pure(stack_, dictionary_)

(***************************************************************************)
(* The programs of the model: the tokens a program may hold at top level.  *)
(***************************************************************************)
\* the values an initial stack is made of
InitVals == {IntV(0), IntV(1), BoolV(TRUE)}

\* the numbers of the Number tokens at top level
Numbers == 0 .. 1

InitStacks == UNION {[1 .. n -> InitVals] : n \in 0 .. MaxInitLen}

\* BEGIN X n < WHILE X 1 + ASSIGN X REPEAT
CountLoop(n) ==
    WhileParserToken(<<IdentParserToken("X"), NumberParserToken(n), BooleanOperatorParserToken("<")>>,
                     <<IdentParserToken("X"), NumberParserToken(1), ArithmeticOperatorParserToken("+"),
                       DictionaryOperatorParserToken("ASSIGN", "X")>>)

WhileTokens ==
    {CountLoop(n) : n \in 0 .. MaxN} \cup
    {WhileParserToken(<<NumberParserToken(1)>>, <<NumberParserToken(2)>>),
     WhileParserToken(<<BooleanParserToken(FALSE)>>, <<NumberParserToken(0)>>),
     WhileParserToken(<<BooleanParserToken(TRUE)>>, <<NumberParserToken(2)>>),
     WhileParserToken(<<>>, <<BooleanParserToken(FALSE)>>)}

IfTokens ==
    {IfParserToken(<<NumberParserToken(1)>>, <<>>, FALSE),
     IfParserToken(<<NumberParserToken(1)>>, <<NumberParserToken(2)>>, TRUE),
     IfParserToken(<<>>, <<>>, TRUE),
     IfParserToken(<<VariableParserToken("Y")>>,
                   <<NumberParserToken(0), DictionaryOperatorParserToken("ASSIGN", "X")>>, TRUE)}

\* | F ( VALUE X ) X RETURN 1 |
IdentityFunction ==
    FunctionParserToken("F", <<ValueParserToken("X")>>,
                        <<IdentParserToken("X"), ReturnParserToken(1)>>)

\* | F ( VALUE X VALUE Y ) X Y - RETURN 1 |
DifferenceFunction ==
    FunctionParserToken("F", <<ValueParserToken("X"), ValueParserToken("Y")>>,
                        <<IdentParserToken("X"), IdentParserToken("Y"),
                          ArithmeticOperatorParserToken("-"), ReturnParserToken(1)>>)

\* | G ( ) 1 2 RETURN 2 |
ConstantFunction ==
    FunctionParserToken("G", <<>>,
                        <<NumberParserToken(1), NumberParserToken(2), ReturnParserToken(2)>>)

\* a function of two parameters without a body, as the tests build it
EmptyFunction ==
    FunctionParserToken("G", <<ValueParserToken("X"), ValueParserToken("Y")>>, <<>>)

\* | Y ( VALUE Y ) |
\* a function of one parameter without a body; the parameter has the name of
\* the function, so that every call site holds a binding of its name
UnaryEmptyFunction == FunctionParserToken("Y", <<ValueParserToken("Y")>>, <<>>)

\* | G ( ) RETURN 0 |
NestedFunction == FunctionParserToken("G", <<>>, <<ReturnParserToken(0)>>)

\* | F ( VALUE X )
\*     IF False X F VARIABLE Y X ASSIGN Y | G ( ) RETURN 0 | ELSE VARIABLE Y THEN
\*   RETURN 0 |
\* a function that calls itself once when the value below its argument is
\* True, and declares a variable and a function and assigns inside its body
RecursiveFunction ==
    FunctionParserToken("F", <<ValueParserToken("X")>>,
        <<IfParserToken(<<BooleanParserToken(FALSE), IdentParserToken("X"), IdentParserToken("F"),
                          VariableParserToken("Y"), IdentParserToken("X"),
                          DictionaryOperatorParserToken("ASSIGN", "Y"), NestedFunction>>,
                        <<VariableParserToken("Y")>>, TRUE),
          ReturnParserToken(0)>>)

FunctionTokens == {IdentityFunction, DifferenceFunction, ConstantFunction, EmptyFunction}

\* | G ( ) 1 RETURN 1 2 |
\* a function whose body goes on after its RETURN
TrailingFunction ==
    FunctionParserToken("G", <<>>,
                        <<NumberParserToken(1), ReturnParserToken(1), NumberParserToken(2)>>)

\* BEGIN False | G ( ) RETURN 0 | WHILE 0 REPEAT
\* a loop whose predicate declares a function after it has pushed its outcome
DeclaringLoop ==
    WhileParserToken(<<BooleanParserToken(FALSE), NestedFunction>>, <<NumberParserToken(0)>>)

\* the tokens of the programs that declare, assign, look up and call: the
\* declarations of variables and functions, ASSIGN, the identifiers, the
\* literals and the arithmetic that put values on the stack, an If that
\* declares and assigns in its branches, a loop that declares in its
\* predicate, and a function with tokens after its RETURN
DictionaryTokens ==
    {NumberParserToken(n) : n \in {0, 1, MaxNumber}}
    \cup {BooleanParserToken(FALSE)}
    \cup {VariableParserToken(name) : name \in {"X", "Y"}}
    \cup {IdentParserToken(name) : name \in Names}
    \cup FunctionTokens \cup {UnaryEmptyFunction, RecursiveFunction}
    \cup {ArithmeticOperatorParserToken(op) : op \in {"+", "-"}}
    \cup {DictionaryOperatorParserToken("ASSIGN", name) : name \in {"X", "Y"}}
    \cup {IfParserToken(<<VariableParserToken("Y")>>,
                        <<NumberParserToken(0), DictionaryOperatorParserToken("ASSIGN", "X")>>, TRUE)}
    \cup {DeclaringLoop, TrailingFunction}

(***************************************************************************)
(* The lexer (src/src/words/lexer/lex.py).  A word is a piece of a line    *)
(* between whitespace, with the number of its line; a lexer token has the  *)
(* class (kind) lex_word chose, the member of the class's Types its value  *)
(* is, and for a literal the content of the word.                          *)
(***************************************************************************)
Word(content, debug_data) == [content |-> content, debug_data |-> debug_data]

LexerToken(kind, value, content, debug_data) ==
    [kind |-> kind, value |-> value, content |-> content, debug_data |-> debug_data]

\* the values of the Types of the token classes
DelimTypes == {"(", ")"}

KeywordTypes ==
    {"BEGIN", "WHILE", "REPEAT", "IF", "ELSE", "THEN", "VARIABLE", "COPY", "VALUE", "RETURN",
     "|", "LAMBDA"}

LiteralTypes == {"NUMBER", "#", "True", "False"}

MacroTypes == {"__PRINT__"}

OpTypes == {"-", "+", "==", ">", "<", ">=", "<=", "ASSIGN"}

\* the words of the model that consist of digits, and the numbers they denote
NumberWords == {"0", "1", "2", "3", "4", "255", "256", "257"}

\* word.content.isdigit()
isdigit(content) == content \in NumberWords

DelimLexerToken(word) == LexerToken("delim", word.content, "", word.debug_data)

KeywordLexerToken(word) == LexerToken("keyword", word.content, "", word.debug_data)

LiteralLexerToken(token_type, word) == LexerToken("literal", token_type, word.content, word.debug_data)

MacroLexerToken(word) == LexerToken("macro", word.content, "", word.debug_data)

OpLexerToken(word) == LexerToken("op", word.content, "", word.debug_data)

\* the value of an identifier token is the word itself
IdentLexerToken(word) == LexerToken("ident", word.content, "", word.debug_data)

\* the classes are tried in this order; the first that knows the word wins
lex_word(word) ==
    IF word.content \in DelimTypes THEN DelimLexerToken(word)
    ELSE IF word.content \in KeywordTypes THEN KeywordLexerToken(word)
    ELSE IF word.content \in LiteralTypes THEN LiteralLexerToken(word.content, word)
    ELSE IF word.content \in MacroTypes THEN MacroLexerToken(word)
    ELSE IF word.content \in OpTypes THEN OpLexerToken(word)
    ELSE IF isdigit(word.content) THEN LiteralLexerToken("NUMBER", word)
    ELSE IdentLexerToken(word)

\* the tokens lex_word makes of the given words, one by one
Lexed(words_) == [i \in 1 .. Len(words_) |-> lex_word(words_[i])]

\* token.value == LiteralLexerToken.Types.COMMENT
IsComment(token) == token.kind = "literal" /\ token.value = "#"

\* the words a source line of the model is made of
SourceWords == {"#", "2", "X"}

\* the lines of a text, each as the pieces line.split() finds in it
SourceLines == UNION {[1 .. n -> SourceWords] : n \in 0 .. MaxWords}

\* _split_line_into_words on a line that splits into the given pieces;
\* line_nr counts from 0
split_line_into_words(line_nr, line_) == [i \in 1 .. Len(line_) |-> Word(line_[i], line_nr)]

(***************************************************************************)
(* Parsing.  The iterator of lexer tokens is the sequence of the tokens    *)
(* not yet taken from it.  A parse returns the parser token it made (val), *)
(* what it left of the iterator (rest) and the exception it raised, if any *)
(* (exc); eat_until and eat_until_discarding return a list of parser       *)
(* tokens as val, and eat_until the type of the lexer token it ended on    *)
(* (lim), which the source keeps as the last item of the list.             *)
(***************************************************************************)
Returned(val, lim, rest) == [val |-> val, lim |-> lim, rest |-> rest, exc |-> "none"]

Raised(exc) == [val |-> <<>>, lim |-> "", rest |-> <<>>, exc |-> exc]

\* token.value in limit_types: the value of an identifier token is a string,
\* never one of the types
InTypes(token, limit_types) == token.kind # "ident" /\ token.value \in limit_types

\* int(content)
int(content) ==
    CASE content = "0" -> 0
      [] content = "1" -> 1
      [] content = "2" -> 2
      [] content = "3" -> 3
      [] content = "4" -> 4
      [] content = "255" -> 255
      [] content = "256" -> 256
      [] content = "257" -> 257

\* an exception about a token found where another was expected: its message
\* takes token.debug_str(), and that of a number literal is int(content),
\* which the word NUMBER, lexed as a number literal, does not survive
Unexpected(exc, token) ==
    IF token.kind = "literal" /\ token.value = "NUMBER" /\ ~isdigit(token.content)
    THEN Raised("ValueError")
    ELSE Raised(exc)

RECURSIVE parse(_, _), eat_until(_, _), eat_until_discarding(_, _)

\* DelimLexerToken.parse
DelimLexerToken_parse(self, tokens_) == Raised("InvalidTokenError")

\* IdentLexerToken.parse
IdentLexerToken_parse(self, tokens_) == Returned(IdentParserToken(self.value), "", tokens_)

\* a slip: the largest number is rejected too
LiteralLexerToken_parse_exclusive(self, tokens_) ==
    IF self.value = "#" THEN Raised("InvalidTokenError")
    ELSE IF self.value = "NUMBER"
    THEN IF ~isdigit(self.content) THEN Raised("ValueError")
         ELSE IF int(self.content) >= MaxNumber THEN Raised("ValueError")
         ELSE Returned(NumberParserToken(int(self.content)), "", tokens_)
    ELSE Returned(BooleanParserToken(self.content = "True"), "", tokens_)

\* LiteralLexerToken.parse; a word NUMBER is lexed as a number literal and
\* int() does not read it
LiteralLexerToken_parse(self, tokens_) ==
    IF self.value = "#" THEN Raised("InvalidTokenError")
    ELSE IF self.value = "NUMBER"
    THEN IF ~isdigit(self.content) THEN Raised("ValueError")
         ELSE IF int(self.content) > MaxNumber THEN Raised("ValueError")
         ELSE Returned(NumberParserToken(int(self.content)), "", tokens_)
    ELSE Returned(BooleanParserToken(self.content = "True"), "", tokens_)

\* MacroLexerToken.parse
MacroLexerToken_parse(self, tokens_) == Returned(MacroParserToken(self.value), "", tokens_)

\* OpLexerToken.parse
OpLexerToken_parse(self, tokens_) ==
    IF self.value \in {"-", "+"}
    THEN Returned(ArithmeticOperatorParserToken(self.value), "", tokens_)
    ELSE IF self.value \in {"==", ">", "<", ">=", "<="}
    THEN Returned(BooleanOperatorParserToken(self.value), "", tokens_)
    ELSE IF tokens_ = <<>> THEN Raised("MissingTokenError")
    ELSE IF Head(tokens_).kind # "ident" THEN Unexpected("UnexpectedTokenError", Head(tokens_))
    ELSE Returned(DictionaryOperatorParserToken(self.value, Head(tokens_).value), "",
                  Tail(tokens_))

\* KeywordLexerToken.parse of BEGIN
KeywordLexerToken_parse_BEGIN(self, tokens_) ==
    LET predicate == eat_until(tokens_, {"WHILE"})
    IN  IF predicate.exc # "none" THEN predicate
        ELSE LET body == eat_until_discarding(predicate.rest, {"REPEAT"})
             IN  IF body.exc # "none" THEN body
                 ELSE IF body.val = <<>> THEN Raised("MissingTokenError")
                 ELSE Returned(WhileParserToken(predicate.val, body.val), "", body.rest)

\* a slip: a branch, like the body of a loop, must hold a token
KeywordLexerToken_parse_IF_needing_body(self, tokens_) ==
    LET if_body == eat_until(tokens_, {"ELSE", "THEN"})
    IN  IF if_body.exc = "StopIteration" THEN Raised("MissingTokenError")
        ELSE IF if_body.exc # "none" THEN if_body
        ELSE IF if_body.val = <<>> THEN Raised("MissingTokenError")
        ELSE IF if_body.lim = "ELSE"
        THEN LET else_body == eat_until_discarding(if_body.rest, {"THEN"})
             IN  IF else_body.exc = "StopIteration" THEN Raised("MissingTokenError")
                 ELSE IF else_body.exc # "none" THEN else_body
                 ELSE Returned(IfParserToken(if_body.val, else_body.val, TRUE), "",
                               else_body.rest)
        ELSE Returned(IfParserToken(if_body.val, <<>>, FALSE), "", if_body.rest)

\* KeywordLexerToken.parse of IF
KeywordLexerToken_parse_IF(self, tokens_) ==
    LET if_body == eat_until(tokens_, {"ELSE", "THEN"})
    IN  IF if_body.exc = "StopIteration" THEN Raised("MissingTokenError")
        ELSE IF if_body.exc # "none" THEN if_body
        ELSE IF if_body.lim = "ELSE"
        THEN LET else_body == eat_until_discarding(if_body.rest, {"THEN"})
             IN  IF else_body.exc = "StopIteration" THEN Raised("MissingTokenError")
                 ELSE IF else_body.exc # "none" THEN else_body
                 ELSE Returned(IfParserToken(if_body.val, else_body.val, TRUE), "",
                               else_body.rest)
        ELSE Returned(IfParserToken(if_body.val, <<>>, FALSE), "", if_body.rest)

\* KeywordLexerToken.parse of VARIABLE and of VALUE
KeywordLexerToken_parse_VARIABLE(self, tokens_) ==
    IF tokens_ = <<>> THEN Raised("MissingTokenError")
    ELSE IF Head(tokens_).kind # "ident" THEN Unexpected("UnexpectedTokenError", Head(tokens_))
    ELSE IF self.value = "VARIABLE"
    THEN Returned(VariableParserToken(Head(tokens_).value), "", Tail(tokens_))
    ELSE Returned(ValueParserToken(Head(tokens_).value), "", Tail(tokens_))

\* a slip: the count may be as large as the number of parameter registers
\* plus one
KeywordLexerToken_parse_RETURN_up_to_four(self, tokens_) ==
    IF tokens_ = <<>> THEN Raised("MissingTokenError")
    ELSE LET token == Head(tokens_)
         IN  IF ~(token.kind = "literal" /\ token.value = "NUMBER")
             THEN Raised("UnexpectedTokenTypeError")
             ELSE IF ~isdigit(token.content) THEN Raised("ValueError")
             ELSE IF int(token.content) \notin 0 .. 4 THEN Raised("IncorrectReturnCountError")
             ELSE Returned(ReturnParserToken(int(token.content)), "", Tail(tokens_))

\* KeywordLexerToken.parse of RETURN, with LexerToken.try_get_return_value
KeywordLexerToken_parse_RETURN(self, tokens_) ==
    IF tokens_ = <<>> THEN Raised("MissingTokenError")
    ELSE LET token == Head(tokens_)
         IN  IF ~(token.kind = "literal" /\ token.value = "NUMBER")
             THEN Raised("UnexpectedTokenTypeError")
             ELSE IF ~isdigit(token.content) THEN Raised("ValueError")
             ELSE IF int(token.content) \notin 0 .. 3 THEN Raised("IncorrectReturnCountError")
             ELSE Returned(ReturnParserToken(int(token.content)), "", Tail(tokens_))

\* KeywordLexerToken.parse of FUNCTION (the word |)
KeywordLexerToken_parse_FUNCTION(self, tokens_) ==
    IF tokens_ = <<>> THEN Raised("StopIteration")
    ELSE IF Head(tokens_).kind # "ident" THEN Unexpected("UnexpectedTokenError", Head(tokens_))
    ELSE IF Tail(tokens_) = <<>> THEN Raised("StopIteration")
    ELSE IF ~(tokens_[2].kind = "delim" /\ tokens_[2].value = "(")
    THEN Unexpected("UnexpectedTokenTypeError", tokens_[2])
    ELSE LET parameters == eat_until_discarding(Tail(Tail(tokens_)), {")"})
         IN  IF parameters.exc = "StopIteration" THEN Raised("MissingTokenError")
             ELSE IF parameters.exc # "none" THEN parameters
             ELSE LET body == eat_until_discarding(parameters.rest, {"|"})
                  IN  IF body.exc = "StopIteration" THEN Raised("MissingTokenError")
                      ELSE IF body.exc # "none" THEN body
                      ELSE IF \A i \in 1 .. Len(body.val) : body.val[i].kind # "return"
                      THEN Raised("NoReturnTokenError")
                      ELSE IF \E i \in 1 .. Len(parameters.val) :
                                  parameters.val[i].kind # "value"
                      THEN Raised("RuntimeError")
                      ELSE Returned(FunctionParserToken(Head(tokens_).value, parameters.val,
                                                        body.val), "", body.rest)

\* KeywordLexerToken.parse
KeywordLexerToken_parse(self, tokens_) ==
    CASE self.value = "BEGIN" -> KeywordLexerToken_parse_BEGIN(self, tokens_)
      [] self.value \in {"WHILE", "REPEAT", "ELSE", "THEN"} -> Raised("InvalidTokenError")
      [] self.value = "IF" -> KeywordLexerToken_parse_IF(self, tokens_)
      [] self.value \in {"VARIABLE", "VALUE"} -> KeywordLexerToken_parse_VARIABLE(self, tokens_)
      [] self.value = "RETURN" -> KeywordLexerToken_parse_RETURN(self, tokens_)
      [] self.value = "|" -> KeywordLexerToken_parse_FUNCTION(self, tokens_)
      [] self.value = "COPY" -> Returned(Tok("copy", "", "", 0, <<>>, <<>>, FALSE), "", tokens_)
      [] OTHER -> Raised("NotImplementedError")

\* token.parse(tokens): the method of the class of the token
parse(token, tokens_) ==
    CASE token.kind = "delim" -> DelimLexerToken_parse(token, tokens_)
      [] token.kind = "ident" -> IdentLexerToken_parse(token, tokens_)
      [] token.kind = "keyword" -> KeywordLexerToken_parse(token, tokens_)
      [] token.kind = "literal" -> LiteralLexerToken_parse(token, tokens_)
      [] token.kind = "macro" -> MacroLexerToken_parse(token, tokens_)
      [] token.kind = "op" -> OpLexerToken_parse(token, tokens_)

\* parse tokens until one is of a limit type; that token is taken and returned
\* unparsed.  next(tokens) on the exhausted iterator raises StopIteration.
eat_until(tokens_, limit_types) ==
    IF tokens_ = <<>> THEN Raised("StopIteration")
    ELSE IF InTypes(Head(tokens_), limit_types)
    THEN Returned(<<>>, Head(tokens_).value, Tail(tokens_))
    ELSE LET parsed_token == parse(Head(tokens_), Tail(tokens_))
         IN  IF parsed_token.exc # "none" THEN parsed_token
             ELSE LET eaten == eat_until(parsed_token.rest, limit_types)
                  IN  IF eaten.exc # "none" THEN eaten
                      ELSE Returned(<<parsed_token.val>> \o eaten.val, eaten.lim, eaten.rest)

\* parse tokens until one is of a limit type; that token is taken and dropped
eat_until_discarding(tokens_, limit_types) ==
    IF tokens_ = <<>> THEN Raised("StopIteration")
    ELSE IF InTypes(Head(tokens_), limit_types)
    THEN Returned(<<>>, "", Tail(tokens_))
    ELSE LET parsed_token == parse(Head(tokens_), Tail(tokens_))
         IN  IF parsed_token.exc # "none" THEN parsed_token
             ELSE LET eaten == eat_until_discarding(parsed_token.rest, limit_types)
                  IN  IF eaten.exc # "none" THEN eaten
                      ELSE Returned(<<parsed_token.val>> \o eaten.val, "", eaten.rest)

\* the words of the programs given to the parser
ParserWords == {"IF", "ELSE", "THEN", "1", "BEGIN"}

\* the words that follow a RETURN in the programs given to the parser
ReturnFollowers == NumberWords \cup {"NUMBER", "X", "True", "IF", "(", "RETURN"}

\* the words of the function bodies given to the parser
BodyWords == {"RETURN", "0", "IF", "THEN", "BEGIN", "WHILE", "REPEAT"}

\* the programs of the constructs: a number; a RETURN, alone or followed by
\* a word, with or without a number before it and after it; a function
\* without parameters and with a body of at most MaxBody words
ConstructLines ==
    {<<word>> : word \in NumberWords}
        \cup {prefix \o <<"RETURN">> \o follower \o suffix :
                 prefix \in {<<>>, <<"1">>},
                 follower \in {<<>>} \cup {<<word>> : word \in ReturnFollowers},
                 suffix \in {<<>>, <<"1">>}}
        \cup {<<"|", "F", "(", ")">> \o body \o <<"|">> :
                 body \in UNION {[1 .. n -> BodyWords] : n \in 0 .. MaxBody}}

ConstructStreams == {Lexed(split_line_into_words(0, line_)) : line_ \in ConstructLines}

\* the token streams the lexer makes of one line of at most MaxTokens of them
TokenStreams ==
    {Lexed(split_line_into_words(0, line_)) :
        line_ \in UNION {[1 .. n -> ParserWords] : n \in 0 .. MaxTokens}}

(***************************************************************************)
(* The compiler for the Cortex-M0 (src/src/words/compiler/compile.py and   *)
(* compile_util.py).  The assembly text is kept as the sequence of its     *)
(* lines; a line is an instruction with its registers, its immediate and   *)
(* its target, a label or a comment.  A label made with a fresh uuid4      *)
(* carries the place in the AST of the node that drew the uuid: two nodes  *)
(* never share one.  A compile function returns its lines, or the          *)
(* exception that left it.                                                 *)
(***************************************************************************)
Label(name, suffix, uuid) == [name |-> name, suffix |-> suffix, uuid |-> uuid]

NoLabel == Label("", "", <<>>)

Instr(inst, regs, immed, target) ==
    [inst |-> inst, regs |-> regs, immed |-> immed, target |-> target]

\* the lines a compile function returned
Compiled(lines) == [asm |-> lines, exc |-> "none"]

\* the exception that left a compile function
CompileRaised(exc) == [asm |-> <<>>, exc |-> exc]

\* output += more, more being evaluated after output
Plus(output, more) ==
    IF output.exc # "none" THEN output
    ELSE IF more.exc # "none" THEN more
    ELSE Compiled(output.asm \o more.asm)

reg(n) == <<"r0", "r1", "r2", "r3", "r4", "r5", "r6", "r7">>[n + 1]

asm_instruction_load(dest_reg, immed32) == <<Instr("ldr", <<reg(dest_reg)>>, immed32, NoLabel)>>

asm_instruction_move(dest_reg, immed8) == <<Instr("mov", <<reg(dest_reg)>>, immed8, NoLabel)>>

asm_instruction_move_reg(dest_reg, from_reg) ==
    <<Instr("mov", <<reg(dest_reg), reg(from_reg)>>, 0, NoLabel)>>

asm_instruction_move_into_pc(reg_) == <<Instr("mov", <<"pc", reg(reg_)>>, 0, NoLabel)>>

asm_instruction_move_lr_into(reg_) == <<Instr("mov", <<reg(reg_), "lr">>, 0, NoLabel)>>

asm_instruction_cmp_immed(cmp_reg, immed8) == <<Instr("cmp", <<reg(cmp_reg)>>, immed8, NoLabel)>>

asm_instruction_cmp_reg(cmp_reg, cmp_reg2) ==
    <<Instr("cmp", <<reg(cmp_reg), reg(cmp_reg2)>>, 0, NoLabel)>>

asm_instruction_list(inst, regs) ==
    LET regs_str == [j \in 1 .. Len(regs) |-> reg(regs[j])]
    IN  <<Instr(inst, regs_str, 0, NoLabel)>>

asm_push_lr == <<Instr("push", <<"lr">>, 0, NoLabel)>>

\* 0x11, the image of the threshold 0x11111111 on the scale on which
\* MaxNumber is the image of 0xFFFFFFFF
LdrThreshold == 17

asm_push_value_stack(value) ==
    (IF value > LdrThreshold THEN asm_instruction_load(0, value) ELSE <<>>)
        \o asm_instruction_move(0, value)
        \o asm_instruction_list("push", <<0>>)

asm_branch(target) == <<Instr("b", <<>>, 0, target)>>

asm_branch_link(target) == <<Instr("bl", <<>>, 0, target)>>

asm_comment == <<Instr("@", <<>>, 0, NoLabel)>>

\* the line  target:
asm_label(target) == <<Instr(":", <<>>, 0, target)>>

\* used_regs holds the names of the parameters in the order of their
\* registers r3, r4, ...; the register of the first parameter of that name
reg_from_val(ident_val, used_regs) ==
    (CHOOSE i \in 1 .. Len(used_regs) :
        used_regs[i] = ident_val /\ \A j \in 1 .. i - 1 : used_regs[j] # ident_val) - 1 + 3

boolean_compile_map(op) ==
    CASE op = "==" -> "beq"
      [] op = "!=" -> "bne"
      [] op = ">=" -> "bge"
      [] op = "<=" -> "bls"
      [] op = ">" -> "bgt"
      [] op = "<" -> "blt"

arithmetic_compile_map(op) ==
    CASE op = "+" -> "add"
      [] op = "-" -> "sub"

RECURSIVE _compile_token(_, _, _)
RECURSIVE compile_tokens(_, _, _, _)

\* "".join(M0Compiler._compile_token(token, used_regs) for token in tokens_);
\* the token at place i of the list draws its uuids at uuid \o <<i>>
compile_tokens(tokens_, used_regs, uuid, i) ==
    IF tokens_ = <<>> THEN Compiled(<<>>)
    ELSE Plus(_compile_token(Head(tokens_), used_regs, uuid \o <<i>>),
              compile_tokens(Tail(tokens_), used_regs, uuid, i + 1))

\* param_regs is kept as the names of the parameters in the order of
\* their registers, keys as the registers i + 3 (i from 0) themselves
_compile_function_token(function_token, uuid) ==
    LET func_end == Label(function_token.name, "_end", <<>>)
        parameters == function_token.a
        keys == [j \in 1 .. Len(parameters) |-> j - 1 + 3]
        param_regs == [j \in 1 .. Len(parameters) |-> parameters[j].value]
        save_regs ==
            [j \in 1 .. Len(keys) |-> asm_instruction_move_reg(keys[j] - 2, keys[j])[1]]
        reserve ==
            IF parameters # <<>>
            THEN asm_instruction_move_lr_into(5)
                     \o save_regs
                     \o asm_instruction_list("pop", keys)
                     \o asm_instruction_list("push", <<5>>)
                     \o asm_instruction_list("push", [j \in 1 .. Len(keys) |-> keys[j] - 2])
            ELSE asm_push_lr
        cleanup ==
            asm_comment \o asm_comment
                \o asm_instruction_list("pop", <<6>>)
                \o asm_instruction_list("pop", keys)
                \o asm_comment
                \o asm_instruction_list("pop", <<7>>)
                \o asm_instruction_list("push", <<6>>)
                \o asm_instruction_move_into_pc(7)
                \o asm_label(func_end)
                \o asm_comment
    IN  Plus(Plus(Compiled(asm_comment \o asm_branch(func_end)
                               \o asm_label(Label(function_token.name, "", <<>>))
                               \o reserve \o asm_comment),
                  compile_tokens(function_token.b, param_regs, uuid, 1)),
             Compiled(cleanup))

_compile_number_token(token) == Compiled(asm_push_value_stack(token.num))

_compile_ident_token(token, used_regs) ==
    IF \A i \in 1 .. Len(used_regs) : used_regs[i] # token.value
    THEN Compiled(asm_branch_link(Label(token.value, "", <<>>)))
    ELSE Compiled(asm_instruction_list("push", <<reg_from_val(token.value, used_regs)>>))

_compile_boolean_op_token(token, uuid) ==
    LET skip_false_if_true_branch == Label("true_line", "", uuid \o <<1>>)
        false_branch == Label("false_line", "", uuid \o <<2>>)
    IN  Compiled(asm_instruction_list("pop", <<1, 2>>)
                     \o asm_instruction_move(0, 1)
                     \o asm_instruction_cmp_reg(2, 1)
                     \o <<Instr(boolean_compile_map(token.value), <<>>, 0,
                                skip_false_if_true_branch)>>
                     \o asm_label(false_branch)
                     \o asm_instruction_move(0, 0)
                     \o asm_label(skip_false_if_true_branch)
                     \o asm_instruction_list("push", <<0>>))

_compile_macro_token(token) ==
    IF token.name = "__PRINT__"
    THEN Compiled(asm_instruction_list("pop", <<0>>)
                      \o asm_branch_link(Label("print_num", "", <<>>))
                      \o asm_instruction_list("push", <<0>>))
    ELSE Compiled(<<>>)

\* else_body is None for an If without ELSE, and iterating over None raises
\* TypeError; the if_body has been compiled by then
_compile_if_token(if_token, used_regs, uuid) ==
    LET else_branch == Label("else_body_of_if_on_line", "", uuid)
        end_of_if == Label("end_if_on_line", "", uuid)
        else_body ==
            IF if_token.has_else
            THEN compile_tokens(if_token.b, used_regs, uuid, Len(if_token.a) + 1)
            ELSE CompileRaised("TypeError")
    IN  Plus(Plus(Plus(Compiled(asm_instruction_list("pop", <<0>>)
                                    \o asm_instruction_cmp_immed(0, 0)
                                    \o <<Instr("beq", <<>>, 0, else_branch)>>
                                    \o asm_label(Label("if_body_of_if_on_line", "", uuid))),
                       compile_tokens(if_token.a, used_regs, uuid, 1)),
                  Plus(Compiled(asm_branch(end_of_if) \o asm_label(else_branch)), else_body)),
             Compiled(asm_label(end_of_if)))

_compile_return_token(token, used_regs) == Compiled(<<>>)

_compile_copy_token(token, used_regs) ==
    Compiled(asm_instruction_list("pop", <<0>>)
                 \o asm_instruction_list("push", <<0>>)
                 \o asm_instruction_list("push", <<0>>))

_compile_boolean_token(token) ==
    IF token.num = 1 THEN Compiled(asm_push_value_stack(1))
    ELSE Compiled(asm_push_value_stack(0))

_compile_while_token(while_token, used_regs, uuid) ==
    LET while_predicate == Label("while_predicate_on_line", "", uuid)
        while_body_start == Label("while_body_on_line", "", uuid)
        end_of_while == Label("end_while_on_line", "", uuid)
    IN  Plus(Plus(Plus(Plus(Compiled(asm_label(while_predicate)),
                            compile_tokens(while_token.a, used_regs, uuid, 1)),
                       Compiled(asm_instruction_list("pop", <<0>>)
                                    \o asm_instruction_cmp_immed(0, 0)
                                    \o <<Instr("beq", <<>>, 0, end_of_while)>>
                                    \o asm_label(while_body_start))),
                  compile_tokens(while_token.b, used_regs, uuid, Len(while_token.a) + 1)),
             Compiled(asm_branch(while_predicate) \o asm_label(end_of_while)))

_compile_arithmetic_op_token(token) ==
    Compiled(asm_instruction_list("pop", <<0, 1>>)
                 \o <<Instr(arithmetic_compile_map(token.value), <<reg(0), reg(1), reg(0)>>,
                            0, NoLabel)>>
                 \o asm_instruction_list("push", <<0>>))

\* the dispatch on the class of the token; a token of no class of the list
\* (a Variable, a Value, a DictionaryOperator) raises RuntimeError("Cannot
\* compile token ...")
_compile_token(token, used_regs, uuid) ==
    CASE token.kind = "function" -> _compile_function_token(token, uuid)
      [] token.kind = "number" -> _compile_number_token(token)
      [] token.kind = "ident" -> _compile_ident_token(token, used_regs)
      [] token.kind = "macro" -> _compile_macro_token(token)
      [] token.kind = "booleanop" -> _compile_boolean_op_token(token, uuid)
      [] token.kind = "if" -> _compile_if_token(token, used_regs, uuid)
      [] token.kind = "return" -> _compile_return_token(token, used_regs)
      [] token.kind = "arithmetic" -> _compile_arithmetic_op_token(token)
      [] token.kind = "boolean" -> _compile_boolean_token(token)
      [] token.kind = "while" -> _compile_while_token(token, used_regs, uuid)
      [] token.kind = "copy" -> _compile_copy_token(token, used_regs)
      [] OTHER -> CompileRaised("RuntimeError")

\* the loop of _compile_code_segment over ast.tokens from place i on: the
\* functions are collected apart from the rest of the code, in the order of
\* the tokens
RECURSIVE code_and_functions(_, _)
code_and_functions(tokens_, i) ==
    IF tokens_ = <<>> THEN [code |-> Compiled(<<>>), functions |-> Compiled(<<>>)]
    ELSE LET token == Head(tokens_)
             this == _compile_token(token, <<>>, <<i>>)
             rest == code_and_functions(Tail(tokens_), i + 1)
         IN  IF this.exc # "none" THEN [code |-> this, functions |-> this]
             ELSE IF rest.code.exc # "none" THEN rest
             ELSE IF token.kind = "function"
                  THEN [code |-> rest.code, functions |-> Plus(this, rest.functions)]
                  ELSE [code |-> Plus(this, rest.code), functions |-> rest.functions]

\* setup: serial_begin, the call of a_unittest, the code, the functions;
\* then loop
_compile_code_segment(ast_) ==
    LET compiled == code_and_functions(ast_, 1)
        unittest == asm_instruction_move(0, 2) \o asm_instruction_move(1, 1)
                        \o asm_branch_link(Label("a_unittest", "", <<>>))
    IN  IF compiled.code.exc # "none" THEN compiled.code
        ELSE Compiled(asm_label(Label("setup", "", <<>>))
                          \o asm_branch_link(Label("serial_begin", "", <<>>))
                          \o unittest
                          \o compiled.code.asm
                          \o compiled.functions.asm
                          \o asm_label(Label("loop", "", <<>>))
                          \o asm_branch(Label("loop", "", <<>>)))

\* Compiler.compile(ast, target_): platform_compilers has the one key
\* cortex-m0, for M0Compiler.compile, which joins the directives (no
\* instruction among them) and the code segment
Compiler_compile(ast_, target_) ==
    IF target_ # "cortex-m0" THEN CompileRaised("NotImplementedError")
    ELSE _compile_code_segment(ast_)

(***************************************************************************)
(* The Cortex-M0 that runs the assembly.  A register and a place of the    *)
(* hardware stack hold a number, a code address (the place of a line) or   *)
(* what the program never wrote.  Numbers have the width of a register,    *)
(* on the scale on which MaxNumber is the largest of them.  The machine    *)
(* keeps beside its own state the count of the values pushed less that of  *)
(* the values popped (net), the link-register values the functions in      *)
(* progress were entered with (entered) and, for every  mov pc  executed,  *)
(* what was moved and what the function had been entered with (moved).     *)
(* print_num, serial_begin and a_unittest are not part of the repository:  *)
(* a call of one of them returns to the next line.                         *)
(***************************************************************************)
Num(v) == [t |-> "num", v |-> v]

Addr(v) == [t |-> "addr", v |-> v]

Unwritten == [t |-> "unwritten", v |-> 0]

\* the machine at the entry of setup; line 0 stands for the caller of setup
Reset ==
    [pc |-> 1, sp |-> <<>>,
     r |-> [n \in {"r0", "r1", "r2", "r3", "r4", "r5", "r6", "r7", "lr"} |->
               IF n = "lr" THEN Addr(0) ELSE Unwritten],
     flags |-> <<0, 0>>, state |-> "running", net |-> 0, entered |-> <<>>, moved |-> <<>>]

\* the place of the line  target:  in the assembly, 0 when there is none
LineOf(asm_, target) ==
    IF \E i \in 1 .. Len(asm_) : asm_[i].inst = ":" /\ asm_[i].target = target
    THEN CHOOSE i \in 1 .. Len(asm_) : asm_[i].inst = ":" /\ asm_[i].target = target
    ELSE 0

\* the machine after the line at pc.  push stores the first register of
\* its list on top, pop loads the registers of its list from the top of the
\* stack downwards; add and sub give a result of register width; bge, bgt
\* and blt compare signed numbers, bls unsigned ones
Execute(asm_, m) ==
    LET i == asm_[m.pc]
        next == [m EXCEPT !.pc = m.pc + 1]
        goto(label) ==
            IF LineOf(asm_, label) = 0 THEN [m EXCEPT !.state = "undefined label"]
            ELSE [m EXCEPT !.pc = LineOf(asm_, label)]
        Wrap(n) == n % (MaxNumber + 1)
        Signed(v) == IF v > MaxNumber \div 2 THEN v - (MaxNumber + 1) ELSE v
        Pushed == [j \in 1 .. Len(i.regs) |-> m.r[i.regs[Len(i.regs) - j + 1]]]
        Popped ==
            [n \in DOMAIN m.r |->
                IF \E j \in 1 .. Len(i.regs) : i.regs[j] = n
                THEN FromTop(m.sp, CHOOSE j \in 1 .. Len(i.regs) : i.regs[j] = n)
                ELSE m.r[n]]
        Taken ==
            CASE i.inst = "beq" -> m.flags[1] = m.flags[2]
              [] i.inst = "bne" -> m.flags[1] # m.flags[2]
              [] i.inst = "bge" -> Signed(m.flags[1]) >= Signed(m.flags[2])
              [] i.inst = "bgt" -> Signed(m.flags[1]) > Signed(m.flags[2])
              [] i.inst = "blt" -> Signed(m.flags[1]) < Signed(m.flags[2])
              [] i.inst = "bls" -> m.flags[1] <= m.flags[2]
    IN  CASE i.inst \in {":", "@"} -> next
          [] i.inst = "push" ->
                [next EXCEPT !.sp = m.sp \o Pushed, !.net = m.net + Len(i.regs)]
          [] i.inst = "pop" ->
                IF Len(m.sp) < Len(i.regs)
                THEN [m EXCEPT !.state = "pop of a value never pushed",
                               !.net = m.net - Len(i.regs)]
                ELSE [next EXCEPT !.r = Popped,
                                  !.sp = DropLast(m.sp, Len(i.regs)),
                                  !.net = m.net - Len(i.regs)]
          [] i.inst \in {"mov", "ldr"} /\ Len(i.regs) = 1 ->
                [next EXCEPT !.r[i.regs[1]] = Num(Wrap(i.immed))]
          [] i.inst = "mov" /\ Len(i.regs) = 2 /\ i.regs[1] # "pc" ->
                [next EXCEPT !.r[i.regs[1]] = m.r[i.regs[2]]]
          [] i.inst = "mov" /\ Len(i.regs) = 2 /\ i.regs[1] = "pc" ->
                LET to == m.r[i.regs[2]]
                    entry == IF m.entered = <<>> THEN Unwritten ELSE FromTop(m.entered, 1)
                    returned == [m EXCEPT !.moved = m.moved \o <<[to |-> to, lr |-> entry]>>,
                                          !.entered = DropLast(m.entered, 1)]
                IN  IF to.t = "addr" /\ to.v \in 1 .. Len(asm_)
                    THEN [returned EXCEPT !.pc = to.v]
                    ELSE [returned EXCEPT !.state = "pc is no line of the program"]
          [] i.inst = "cmp" /\ Len(i.regs) = 1 ->
                [next EXCEPT !.flags = <<m.r[i.regs[1]].v, i.immed>>]
          [] i.inst = "cmp" /\ Len(i.regs) = 2 ->
                [next EXCEPT !.flags = <<m.r[i.regs[1]].v, m.r[i.regs[2]].v>>]
          [] i.inst = "add" ->
                [next EXCEPT !.r[i.regs[1]] = Num(Wrap(m.r[i.regs[2]].v + m.r[i.regs[3]].v))]
          [] i.inst = "sub" ->
                [next EXCEPT !.r[i.regs[1]] = Num(Wrap(m.r[i.regs[2]].v - m.r[i.regs[3]].v))]
          [] i.inst = "b" -> goto(i.target)
          [] i.inst = "bl" ->
                IF i.target.name \in {"print_num", "serial_begin", "a_unittest"}
                THEN [next EXCEPT !.r["lr"] = Addr(m.pc + 1)]
                ELSE [goto(i.target) EXCEPT !.r["lr"] = Addr(m.pc + 1),
                                            !.entered = m.entered \o <<Addr(m.pc + 1)>>]
          [] OTHER -> IF Taken THEN goto(i.target) ELSE next

\* the machine has reached  b loop  at the end of the program
Halted(asm_, m) ==
    /\ m.state = "running"
    /\ asm_[m.pc].inst = "b"
    /\ asm_[m.pc].target = Label("loop", "", <<>>)

\* | G ( VALUE X VALUE Y VALUE F ) X RETURN 1 |
\* a function of three parameters that returns its first
TernaryFunction ==
    FunctionParserToken("G", <<ValueParserToken("X"), ValueParserToken("Y"), ValueParserToken("F")>>,
                        <<IdentParserToken("X"), ReturnParserToken(1)>>)

\* | G ( ) 1 2 1 RETURN 3 |
TripleFunction ==
    FunctionParserToken("G", <<>>,
                        <<NumberParserToken(1), NumberParserToken(2), NumberParserToken(1),
                          ReturnParserToken(3)>>)

\* | F ( ) VARIABLE X RETURN 0 |
DeclaringFunction ==
    FunctionParserToken("F", <<>>, <<VariableParserToken("X"), ReturnParserToken(0)>>)

\* the programs given to the compiler: the literals, the operators, the
\* macro, If with and without ELSE on both outcomes, loops, the declaration
\* and the call of functions of zero to three parameters that return zero
\* to three values, and the tokens the compiler has no function for
CompilerPrograms ==
    {<<NumberParserToken(n)>> : n \in {1, MaxNumber}}
        \cup {<<BooleanParserToken(bv)>> : bv \in BOOLEAN}
        \cup {<<NumberParserToken(2), NumberParserToken(1), ArithmeticOperatorParserToken(op)>> :
                 op \in {"+", "-"}}
        \cup {<<NumberParserToken(n), NumberParserToken(1), BooleanOperatorParserToken(op)>> :
                 n \in {0, 1}, op \in {"==", ">", "<", ">=", "<="}}
        \cup {<<NumberParserToken(1), MacroParserToken("__PRINT__")>>}
        \cup {<<BooleanParserToken(bv), IfParserToken(<<NumberParserToken(1)>>, else_body, has_else)>> :
                 bv \in BOOLEAN,
                 else_body \in {<<>>, <<NumberParserToken(2), NumberParserToken(2)>>},
                 has_else \in BOOLEAN}
        \cup {<<WhileParserToken(<<BooleanParserToken(FALSE)>>, <<NumberParserToken(1)>>)>>,
              <<WhileParserToken(<<NumberParserToken(0), NumberParserToken(1),
                                   BooleanOperatorParserToken(">")>>, <<>>),
                NumberParserToken(1)>>}
        \cup {<<IdentityFunction, NumberParserToken(1), IdentParserToken("F")>>,
              <<NumberParserToken(2), NumberParserToken(1), IdentParserToken("F"), DifferenceFunction>>,
              <<ConstantFunction, IdentParserToken("G")>>,
              <<NestedFunction, IdentParserToken("G")>>,
              <<NumberParserToken(0), NestedFunction, IdentParserToken("G")>>,
              <<TripleFunction, IdentParserToken("G")>>,
              <<TernaryFunction, NumberParserToken(0), NumberParserToken(1), NumberParserToken(2),
                IdentParserToken("G")>>,
              <<IdentParserToken("G")>>}
        \cup {<<VariableParserToken("X")>>,
              <<ValueParserToken("X")>>,
              <<NumberParserToken(1), DictionaryOperatorParserToken("ASSIGN", "X")>>,
              <<DeclaringFunction>>,
              <<BooleanParserToken(TRUE),
                IfParserToken(<<VariableParserToken("X")>>, <<>>, FALSE)>>,
              <<ReturnParserToken(0)>>,
              <<NumberParserToken(1), ReturnParserToken(1)>>}

\* the platforms asked for; the first is the only key of platform_compilers
Targets == {"cortex-m0", "x86"}

(***************************************************************************)
(* The state of a run.  stack .. last are the interpreter's; line_nr is    *)
(* the number of lines taken from the text given to the lexer, words the   *)
(* words of the line taken last, line those of them not yet taken by       *)
(* lex_line, tokens the tokens yielded so far and lexer the generator that *)
(* runs next.  The text is read lazily, a line when _exhaustive_lex asks   *)
(* for it.  stream holds the lexer tokens not yet taken by the parser,     *)
(* program the parser tokens made so far, parser the state of              *)
(* _parse_exhaustive, parsed the latest top-level parse (the token, the    *)
(* tokens it had before it, and what it returned) and raised the exception *)
(* that left Parser.parse.  ast is the program given to the compiler,      *)
(* target the platform asked for, compiled what Compiler.compile returned  *)
(* or raised, compiler whether it has run, and m0 the machine that runs    *)
(* the assembly.                                                           *)
(***************************************************************************)
VARIABLES stack, dictionary, err, depth, output, last,
          line_nr, words, line, tokens, lexer,
          stream, program, parser, parsed, raised,
          ast, target, compiled, compiler, m0

interpreter_vars == <<stack, dictionary, err, depth, output, last>>

lexer_vars == <<line_nr, words, line, tokens, lexer>>

parser_vars == <<stream, program, parser, parsed, raised>>

compiler_vars == <<ast, target, compiled, compiler, m0>>

vars ==
    <<stack, dictionary, err, depth, output, last, line_nr, words, line, tokens, lexer,
      stream, program, parser, parsed, raised, ast, target, compiled, compiler, m0>>

\* no program is being compiled
CompilerIdle ==
    /\ ast = <<>>
    /\ target = ""
    /\ compiled = Compiled(<<>>)
    /\ compiler = "idle"
    /\ m0 = Reset

\* no text is being lexed
LexerIdle ==
    /\ words = <<>>
    /\ line_nr = 0
    /\ line = <<>>
    /\ tokens = <<>>
    /\ lexer = "idle"

\* no token stream is being parsed
ParserIdle ==
    /\ stream = <<>>
    /\ program = <<>>
    /\ parser = "idle"
    /\ parsed = [token |-> <<>>, tokens |-> <<>>, res |-> Raised("none")]
    /\ raised = "none"

\* no program is being executed
InterpreterIdle ==
    /\ stack = <<>>
    /\ dictionary = EmptyDict
    /\ err = "none"
    /\ depth = 1
    /\ output = <<>>
    /\ last = [tok |-> NoNode, stack |-> <<>>, dictionary |-> EmptyDict, depth |-> 0,
               res |-> Pure(<<>>, EmptyDict)]

\* execute_program: the initial stack is the caller's, the dictionary is empty;
\* the tokens of the program run in the frames above execute_program's
Init ==
    /\ stack \in InitStacks
    /\ dictionary = EmptyDict
    /\ err = "none"
    /\ depth = 1
    /\ output = <<>>
    /\ last = [tok |-> NoNode, stack |-> <<>>, dictionary |-> EmptyDict, depth |-> 0,
               res |-> Pure(<<>>, EmptyDict)]
    /\ LexerIdle
    /\ ParserIdle
    /\ CompilerIdle

\* one round of exhaustive_interpret_tokens at top level: execute the next
\* token of the program and go on with what it returns; an exception ends the run
Step(tok) ==
    /\ err = "none"
    /\ depth <= MaxSteps
    /\ LET r == execute(tok, stack, dictionary, depth + 1)
       IN  /\ last' = [tok |-> tok, stack |-> stack, dictionary |-> dictionary,
                       depth |-> depth + 1, res |-> r]
           /\ err' = r.err
           /\ output' = output \o r.out
           /\ IF r.err = "none"
              THEN stack' = r.stack /\ dictionary' = r.dictionary
              ELSE UNCHANGED <<stack, dictionary>>
    /\ depth' = depth + 1
    /\ UNCHANGED <<lexer_vars, parser_vars, compiler_vars>>

ExecuteNumber == \E n \in Numbers : Step(NumberParserToken(n))

ExecuteBoolean == \E bv \in BOOLEAN : Step(BooleanParserToken(bv))

ExecuteMacro == Step(MacroParserToken("__PRINT__"))

ExecuteWhile == \E tok \in WhileTokens : Step(tok)

ExecuteIf == \E tok \in IfTokens : Step(tok)

ExecuteVariable == \E name \in {"X", "Y"} : Step(VariableParserToken(name))

ExecuteValue == Step(ValueParserToken("X"))

ExecuteIdent == \E name \in Names : Step(IdentParserToken(name))

ExecuteReturn == \E count \in 0 .. 3 : Step(ReturnParserToken(count))

ExecuteFunction == \E tok \in FunctionTokens : Step(tok)

ExecuteArithmeticOperator == \E op \in {"+", "-"} : Step(ArithmeticOperatorParserToken(op))

ExecuteBooleanOperator ==
    \E op \in {"==", ">", "<", ">=", "<="} : Step(BooleanOperatorParserToken(op))

ExecuteDictionaryOperator ==
    \E name \in {"X", "Y"} : Step(DictionaryOperatorParserToken("ASSIGN", name))

Next ==
    \/ ExecuteNumber
    \/ ExecuteBoolean
    \/ ExecuteMacro
    \/ ExecuteWhile
    \/ ExecuteIf
    \/ ExecuteVariable
    \/ ExecuteValue
    \/ ExecuteIdent
    \/ ExecuteReturn
    \/ ExecuteFunction
    \/ ExecuteArithmeticOperator
    \/ ExecuteBooleanOperator
    \/ ExecuteDictionaryOperator

Spec == Init /\ [][Next]_vars

\* the runs of the programs made of DictionaryTokens
ExecuteDictionaryToken == \E tok \in DictionaryTokens : Step(tok)

SpecDictionary == Init /\ [][ExecuteDictionaryToken]_vars

(***************************************************************************)
(* Lexing a text: Lexer.lex_file_contents.  _exhaustive_lex takes the      *)
(* lines one by one and yields what lex_line yields for each; lex_line     *)
(* takes the words of its line one by one.                                 *)
(***************************************************************************)
InitLexer ==
    /\ InterpreterIdle
    /\ CompilerIdle
    /\ ParserIdle
    /\ line_nr = 0
    /\ words = <<>>
    /\ line = <<>>
    /\ tokens = <<>>
    /\ lexer = "_exhaustive_lex"

\* a slip: the words a comment left untaken are lexed with the next line
ExhaustiveLexLine_keeping_rest ==
    /\ lexer = "_exhaustive_lex"
    /\ line_nr < MaxLines
    /\ \E line_ \in SourceLines :
           /\ words' = split_line_into_words(line_nr, line_)
           /\ line' = line \o split_line_into_words(line_nr, line_)
    /\ line_nr' = line_nr + 1
    /\ lexer' = "lex_line"
    /\ UNCHANGED <<tokens, interpreter_vars, parser_vars, compiler_vars>>

\* _exhaustive_lex: next(words) splits the next line of the text and hands
\* its words to lex_line
ExhaustiveLexLine ==
    /\ lexer = "_exhaustive_lex"
    /\ line_nr < MaxLines
    /\ \E line_ \in SourceLines :
           /\ words' = split_line_into_words(line_nr, line_)
           /\ line' = split_line_into_words(line_nr, line_)
    /\ line_nr' = line_nr + 1
    /\ lexer' = "lex_line"
    /\ UNCHANGED <<tokens, interpreter_vars, parser_vars, compiler_vars>>

\* _exhaustive_lex: the text has no more lines, next(words) raises
\* StopIteration and the lexer is done
ExhaustiveLexStop ==
    /\ lexer = "_exhaustive_lex"
    /\ lexer' = "done"
    /\ UNCHANGED <<line_nr, words, line, tokens, interpreter_vars, parser_vars, compiler_vars>>

\* a slip: a comment is one word wide, lex_line goes on with the next word
LexLineComment_one_word_wide ==
    /\ lexer = "lex_line"
    /\ line # <<>>
    /\ IsComment(lex_word(Head(line)))
    /\ line' = Tail(line)
    /\ UNCHANGED <<line_nr, words, tokens, lexer, interpreter_vars, parser_vars, compiler_vars>>

\* lex_line: the word taken is a comment; lex_line returns, and what is left
\* of its line is never taken
LexLineComment ==
    /\ lexer = "lex_line"
    /\ line # <<>>
    /\ IsComment(lex_word(Head(line)))
    /\ line' = Tail(line)
    /\ lexer' = "_exhaustive_lex"
    /\ UNCHANGED <<line_nr, words, tokens, interpreter_vars, parser_vars, compiler_vars>>

\* lex_line: the word taken is no comment; its token is yielded and lex_line
\* goes on with the rest of the line
LexLineYield ==
    /\ lexer = "lex_line"
    /\ line # <<>>
    /\ ~IsComment(lex_word(Head(line)))
    /\ tokens' = Append(tokens, lex_word(Head(line)))
    /\ line' = Tail(line)
    /\ UNCHANGED <<line_nr, words, lexer, interpreter_vars, parser_vars, compiler_vars>>

\* lex_line: next(line) raises StopIteration, the line is done
LexLineStop ==
    /\ lexer = "lex_line"
    /\ line = <<>>
    /\ lexer' = "_exhaustive_lex"
    /\ UNCHANGED <<line_nr, words, line, tokens, interpreter_vars, parser_vars, compiler_vars>>

NextLexer ==
    \/ ExhaustiveLexLine
    \/ ExhaustiveLexStop
    \/ LexLineComment
    \/ LexLineYield
    \/ LexLineStop

SpecLexer == InitLexer /\ [][NextLexer]_vars

(***************************************************************************)
(* Parsing a token stream: Parser.parse.  _parse_exhaustive parses the     *)
(* next token, which takes what it needs from the stream, and goes on with *)
(* what is left.                                                           *)
(***************************************************************************)
InitParser ==
    /\ InterpreterIdle
    /\ CompilerIdle
    /\ LexerIdle
    /\ stream \in TokenStreams
    /\ program = <<>>
    /\ parser = "_parse_exhaustive"
    /\ parsed = [token |-> <<>>, tokens |-> <<>>, res |-> Raised("none")]
    /\ raised = "none"

\* _parse_exhaustive: next(tokens).parse(tokens) returns a parser token
ParseExhaustiveToken ==
    /\ parser = "_parse_exhaustive"
    /\ stream # <<>>
    /\ LET res == parse(Head(stream), Tail(stream))
       IN  /\ res.exc = "none"
           /\ parsed' = [token |-> Head(stream), tokens |-> Tail(stream), res |-> res]
           /\ program' = Append(program, res.val)
           /\ stream' = res.rest
    /\ UNCHANGED <<parser, raised, interpreter_vars, lexer_vars, compiler_vars>>

\* _parse_exhaustive: StopIteration, of its own next(tokens) or out of the
\* parse of the token, ends the program with the tokens parsed before
ParseExhaustiveStop ==
    /\ parser = "_parse_exhaustive"
    /\ IF stream = <<>>
       THEN UNCHANGED parsed
       ELSE LET res == parse(Head(stream), Tail(stream))
            IN  /\ res.exc = "StopIteration"
                /\ parsed' = [token |-> Head(stream), tokens |-> Tail(stream), res |-> res]
    /\ stream' = <<>>
    /\ parser' = "done"
    /\ UNCHANGED <<program, raised, interpreter_vars, lexer_vars, compiler_vars>>

\* _parse_exhaustive: any other exception leaves Parser.parse, and there is
\* no program
ParseExhaustiveRaise ==
    /\ parser = "_parse_exhaustive"
    /\ stream # <<>>
    /\ LET res == parse(Head(stream), Tail(stream))
       IN  /\ res.exc \notin {"none", "StopIteration"}
           /\ parsed' = [token |-> Head(stream), tokens |-> Tail(stream), res |-> res]
           /\ raised' = res.exc
    /\ stream' = <<>>
    /\ program' = <<>>
    /\ parser' = "raised"
    /\ UNCHANGED <<interpreter_vars, lexer_vars, compiler_vars>>

\* Parser.parse on the programs of the constructs
InitConstructs ==
    /\ InterpreterIdle
    /\ CompilerIdle
    /\ LexerIdle
    /\ stream \in ConstructStreams
    /\ program = <<>>
    /\ parser = "_parse_exhaustive"
    /\ parsed = [token |-> <<>>, tokens |-> <<>>, res |-> Raised("none")]
    /\ raised = "none"

NextParser ==
    \/ ParseExhaustiveToken
    \/ ParseExhaustiveStop
    \/ ParseExhaustiveRaise

SpecParser == InitParser /\ [][NextParser]_vars

SpecConstructs == InitConstructs /\ [][NextParser]_vars

(***************************************************************************)
(* Compiling a program and running what was compiled: Compiler.compile,    *)
(* then the Cortex-M0 on the assembly, a line at a time from setup on.     *)
(***************************************************************************)
InitCompiler ==
    /\ InterpreterIdle
    /\ LexerIdle
    /\ ParserIdle
    /\ ast \in CompilerPrograms
    /\ target \in Targets
    /\ compiled = Compiled(<<>>)
    /\ compiler = "idle"
    /\ m0 = Reset

\* Compiler.compile(ast, target) returns the assembly or raises
Compile ==
    /\ compiler = "idle"
    /\ compiled' = Compiler_compile(ast, target)
    /\ compiler' = IF compiled'.exc = "none" THEN "compiled" ELSE "raised"
    /\ UNCHANGED <<ast, target, m0, interpreter_vars, lexer_vars, parser_vars>>

\* the machine executes the line at pc
M0Execute ==
    /\ compiler = "compiled"
    /\ m0.state = "running"
    /\ ~Halted(compiled.asm, m0)
    /\ m0' = Execute(compiled.asm, m0)
    /\ UNCHANGED <<ast, target, compiled, compiler, interpreter_vars, lexer_vars, parser_vars>>

NextCompiler ==
    \/ Compile
    \/ M0Execute

SpecCompiler == InitCompiler /\ [][NextCompiler]_vars

TypeOK ==
    /\ err \in {"none", "StackSizeException", "InvalidPredicateException",
                "UndefinedIdentifierException", "IdentifierPreviouslyDefinedException",
                "RuntimeError", "TypeError", "IndexError", "RecursionError", "NotImplementedError"}
    /\ depth \in 1 .. MaxSteps + 1

(***************************************************************************)
(* Properties.  last holds the token executed by the latest step, the      *)
(* stack and dictionary it was executed on, its frame and its outcome.     *)
(***************************************************************************)
\* the values of the data model: integers and booleans
IsValue(val) == val.t \in {"int", "bool"}

LastLen == Len(last.stack)

\* the value i positions below the top of the stack the token was executed on
LastFromTop(i) == last.stack[LastLen - i]

\* the stack the token was executed on without its k topmost values
LastWithout(k) == SubSeq(last.stack, 1, LastLen - k)

\* what (second OP top) is, in the integers, with True and False read as 1 and 0
Applied(op, second, top) ==
    CASE op = "+" -> [t |-> "int", v |-> second.v + top.v, node |-> <<>>]
      [] op = "-" -> [t |-> "int", v |-> second.v - top.v, node |-> <<>>]
      [] op = "==" -> BoolV(second.v = top.v)
      [] op = ">" -> BoolV(second.v > top.v)
      [] op = "<" -> BoolV(second.v < top.v)
      [] op = ">=" -> BoolV(second.v >= top.v)
      [] op = "<=" -> BoolV(second.v <= top.v)

\* C1: executing one of the operators + - == > < >= <= on a stack of at least
\* two values returns the stack without its two topmost values followed by
\* (second OP top), and the dictionary unchanged.
C1_OperatorResult ==
    (/\ last.tok.kind \in {"arithmetic", "booleanop"}
     /\ LastLen >= 2
     /\ IsValue(LastFromTop(0)) /\ IsValue(LastFromTop(1)))
    => /\ err = "none"
       /\ stack = LastWithout(2) \o <<Applied(last.tok.value, LastFromTop(1), LastFromTop(0))>>
       /\ dictionary = last.dictionary

\* a subtraction of two different numbers has been executed
C1_Witness ==
    /\ last.tok = ArithmeticOperatorParserToken("-")
    /\ LastLen >= 2
    /\ LastFromTop(1) = IntV(1) /\ LastFromTop(0) = IntV(0)
    /\ err = "none"
    /\ stack = LastWithout(2) \o <<IntV(1)>>

\* the number of values a token needs on the stack
Needs(tok) ==
    CASE tok.kind \in {"arithmetic", "booleanop"} -> 2
      [] tok.kind = "macro" -> 1
      [] tok.kind = "return" -> tok.num
      [] tok.kind = "dictionaryop" -> 1
      [] OTHER -> 0

\* C2: an arithmetic operator, a boolean operator, Print, Return(count) or
\* ASSIGN executed on a stack that holds fewer values than it needs raises
\* StackSizeException; it reads no stack position that does not exist (which
\* would raise IndexError) and leaves stack and dictionary as they were.
C2_Underflow ==
    (/\ last.tok.kind \in {"arithmetic", "booleanop", "macro", "return", "dictionaryop"}
     /\ LastLen < Needs(last.tok))
    => /\ err = "StackSizeException"
       /\ last.res.trace = <<last.tok>>
       /\ stack = last.stack /\ dictionary = last.dictionary

\* ASSIGN has been executed on the empty stack
C2_Witness ==
    /\ last.tok.kind = "dictionaryop"
    /\ last.stack = <<>>
    /\ err = "StackSizeException"

\* the branch an If selects on a boolean: the tokens it is to execute
SelectedBranch(tok, predicate) ==
    IF predicate = BoolV(TRUE) THEN tok.a
    ELSE IF tok.has_else THEN tok.b
    ELSE <<>>

\* C3: an If executed on a stack whose top is a boolean pops it and executes
\* exactly the tokens of the then-branch when it is true, exactly the tokens
\* of the else-branch when it is false and there is one, and no token when it
\* is false and there is none; all on the popped stack.
C3_IfBranch ==
    (/\ last.tok.kind = "if"
     /\ LastLen >= 1
     /\ LastFromTop(0).t = "bool")
    => LET branch == SelectedBranch(last.tok, LastFromTop(0))
           expected == exhaustive_interpret_tokens(branch, LastWithout(1), last.dictionary,
                                                   last.depth + 1)
       IN  /\ err = expected.err
           /\ err = "none" => /\ stack = expected.stack
                              /\ dictionary = expected.dictionary
                              /\ last.res.trace = <<last.tok>> \o branch
           /\ Len(last.res.trace) <= 1 + Len(branch)
           /\ \A i \in 2 .. Len(last.res.trace) : last.res.trace[i] = branch[i - 1]
           /\ branch = <<>> => stack = LastWithout(1) /\ dictionary = last.dictionary

\* an If with both branches has been executed on False and ran its else-branch
C3_Witness ==
    /\ last.tok = IfParserToken(<<NumberParserToken(1)>>, <<NumberParserToken(2)>>, TRUE)
    /\ LastLen >= 1
    /\ LastFromTop(0) = BoolV(FALSE)
    /\ err = "none"
    /\ stack = LastWithout(1) \o <<IntV(2)>>

\* what evaluating the predicate of the While executed last returns on the
\* state the While was executed on
LastPredicate ==
    exhaustive_interpret_tokens(last.tok.a, last.stack, last.dictionary, last.depth + 1)

\* the top (last) value of a non-empty stack
Top(stack_) == stack_[Len(stack_)]

\* C4: an If whose stack top is not a boolean, and a While whose predicate
\* leaves a value that is not a boolean on top, raise
\* InvalidPredicateException and execute no token of a branch or of the body.
C4_NonBooleanPredicate ==
    /\ (last.tok.kind = "if" /\ LastLen >= 1 /\ LastFromTop(0).t # "bool")
       => (err = "InvalidPredicateException" /\ last.res.trace = <<last.tok>>)
    /\ (/\ last.tok.kind = "while"
        /\ LastPredicate.err = "none"
        /\ LastPredicate.stack # <<>>
        /\ Top(LastPredicate.stack).t # "bool")
       => (/\ err = "InvalidPredicateException"
           /\ last.res.trace = <<last.tok>> \o LastPredicate.trace)

\* C5: While decides from the top (last) value its predicate leaves, whatever
\* the stack it starts on: false ends the loop with the state unchanged and
\* the body not run, true runs the body.
C5_WhileDecidesOnTop ==
    (/\ last.tok.kind = "while"
     /\ LastPredicate.err = "none"
     /\ LastPredicate.stack # <<>>
     /\ Top(LastPredicate.stack).t = "bool")
    => IF Top(LastPredicate.stack) = BoolV(FALSE)
       THEN /\ err = "none"
            /\ stack = last.stack
            /\ last.res.trace = <<last.tok>> \o LastPredicate.trace
       ELSE Len(last.res.trace) > 1 + Len(LastPredicate.trace)

\* the number of times tok was executed in a trace
Executions(trace, tok) == Cardinality({i \in 1 .. Len(trace) : trace[i] = tok})

\* the counting loop with bound n was executed on the empty stack with X bound to 0
CountLoopExecuted(n) ==
    /\ last.tok = CountLoop(n)
    /\ last.stack = <<>>
    /\ last.dictionary["X"] = IntV(0)

\* the loop ended with X bound to n after n runs of its body
CountedTo(n) ==
    /\ err = "none"
    /\ stack = <<>>
    /\ dictionary = [last.dictionary EXCEPT !["X"] = IntV(n)]
    /\ Executions(last.res.trace, DictionaryOperatorParserToken("ASSIGN", "X")) = n

\* C6 as stated: from the empty stack and X bound to 0, the counting loop
\* ends with X bound to n after exactly n runs of its body, for every n.
C6_CountsToAnyN ==
    \A n \in 0 .. MaxN : CountLoopExecuted(n) => CountedTo(n)

\* C6 as amended: every iteration nests one more call of While.execute, and
\* the deepest frame of the run lies n + 4 frames above the frame of the
\* first call; the loop counts to n when that frame is within the host's
\* recursion ceiling and ends with RecursionError when it is not.
C6_CountsWithinRecursionLimit ==
    \A n \in 0 .. MaxN :
        CountLoopExecuted(n)
        => IF last.depth + n + 4 <= RecursionLimit
           THEN CountedTo(n)
           ELSE err = "RecursionError"

\* the counting loop has counted from 0 to 2
C6_Witness ==
    /\ CountLoopExecuted(2)
    /\ CountedTo(2)

\* C7: Return(count), count in 0..3, on a stack of at least count values
\* returns exactly the top count values in their order, and the dictionary
\* unchanged.
C7_ReturnTop ==
    (/\ last.tok.kind = "return"
     /\ last.tok.num \in 0 .. 3
     /\ LastLen >= last.tok.num)
    => /\ err = "none"
       /\ Len(stack) = last.tok.num
       /\ \A i \in 1 .. last.tok.num : stack[i] = last.stack[LastLen - last.tok.num + i]
       /\ dictionary = last.dictionary

\* Return(1) has been executed on a stack of two different values
C7_Witness ==
    /\ last.tok = ReturnParserToken(1)
    /\ LastLen >= 2
    /\ LastFromTop(0) # last.stack[1]
    /\ err = "none"
    /\ stack = <<LastFromTop(0)>>

\* the latest step called a function through an Ident
IsCall == last.tok.kind = "ident" /\ last.dictionary[last.tok.value].t = "fn"

\* the function called
LastCallee == last.dictionary[last.tok.value].node[1]

\* what setup_parameters returns in that call
LastSetup ==
    FunctionParserToken_setup_parameters(LastCallee, last.stack, last.dictionary, last.depth + 2)

\* the name of the i-th declared parameter, counted from 1
ParameterName(i) == LastCallee.a[i].value

\* C8 as stated: the topmost value is bound to the last declared parameter,
\* the deepest of the n argument values to the first.
C8_TopToLastParameter ==
    (IsCall /\ LastLen >= Len(LastCallee.a))
    => \A i \in 1 .. Len(LastCallee.a) :
           LastSetup.dictionary[ParameterName(i)] = last.stack[LastLen - Len(LastCallee.a) + i]

\* C8 as amended: the topmost value is bound to the first declared parameter,
\* the value below it to the second, and so on, so that the last declared
\* parameter receives the deepest of the n argument values; a body X Y -
\* therefore returns the topmost value minus the one below it.
C8_TopToFirstParameter ==
    (IsCall /\ LastLen >= Len(LastCallee.a))
    => /\ \A i \in 1 .. Len(LastCallee.a) :
              LastSetup.dictionary[ParameterName(i)] = LastFromTop(i - 1)
       /\ (LastCallee = DifferenceFunction /\ IsValue(LastFromTop(0)) /\ IsValue(LastFromTop(1)))
          => (/\ err = "none"
              /\ stack = LastWithout(2)
                         \o <<[t |-> "int", v |-> LastFromTop(0).v - LastFromTop(1).v, node |-> <<>>]>>)

\* F(X, Y) has been called on a stack whose two topmost values differ
C8_Witness ==
    /\ IsCall
    /\ LastCallee = DifferenceFunction
    /\ LastLen >= 2
    /\ LastFromTop(0) = IntV(1) /\ LastFromTop(1) = IntV(0)
    /\ err = "none"
    /\ Top(stack) = IntV(1)

\* the dictionary d with the parameters of the function called bound, the
\* i-th declared parameter (counted from 0) to the value i positions below
\* the top of the stack
WithParameters(d) ==
    [k \in Names |->
        IF \E i \in 1 .. Len(LastCallee.a) : ParameterName(i) = k
        THEN LastFromTop((CHOOSE i \in 1 .. Len(LastCallee.a) : ParameterName(i) = k) - 1)
        ELSE d[k]]

\* C9: setup_parameters binds the i-th declared parameter (counted from 0) to
\* the value i positions below the top of the stack, leaves every other key
\* as it was and returns the stack without those values; with parameters X
\* then Y and the stack [a, b] it binds X to b and Y to a.
C9_SetupParameters ==
    (IsCall /\ LastLen >= Len(LastCallee.a))
    => /\ LastSetup.err = "none"
       /\ LastSetup.stack = LastWithout(Len(LastCallee.a))
       /\ LastSetup.dictionary = WithParameters(last.dictionary)
       /\ (LastCallee.a = <<ValueParserToken("X"), ValueParserToken("Y")>>)
          => (/\ LastSetup.dictionary["X"] = last.stack[LastLen]
              /\ LastSetup.dictionary["Y"] = last.stack[LastLen - 1])

\* a function with parameters X then Y has been called on [a, b] with a # b
C9_Witness ==
    /\ IsCall
    /\ LastCallee = EmptyFunction
    /\ LastLen = 2
    /\ last.stack[1] # last.stack[2]
    /\ err = "none"
    /\ LastSetup.stack = <<>>

C11_ParametersEaten ==
    (IsCall /\ LastCallee.b = <<>> /\ LastLen > Len(LastCallee.a))
    => /\ err = "none"
       /\ stack = LastWithout(Len(LastCallee.a))

\* the tokens of a trace that are of the given kind
Executed(kind) == {i \in 1 .. Len(last.res.trace) : last.res.trace[i].kind = kind}

\* C12: when a call made through an Ident returns, the dictionary handed back
\* is the call-site dictionary, unchanged: the parameter bindings, the ASSIGNs
\* and the VARIABLE and FUNCTION declarations executed inside the body, at
\* any nesting depth, are not visible to the caller.
C12_CallerDictionary ==
    (IsCall /\ err = "none")
    => /\ dictionary = last.dictionary
       /\ last.res.same
       /\ last.res.inmut = last.dictionary

\* the function that calls itself has returned after it bound its parameter
\* twice, declared Y in both calls and G in the outer, and assigned
C12_Witness ==
    /\ IsCall
    /\ LastCallee = RecursiveFunction
    /\ err = "none"
    /\ Cardinality(Executed("variable")) = 2
    /\ Cardinality(Executed("function")) = 1
    /\ Cardinality(Executed("dictionaryop")) = 1
    /\ ~InDict("X", dictionary) /\ ~InDict("Y", dictionary) /\ ~InDict("G", dictionary)

\* the name a declaration declares
Declared(tok) == IF tok.kind = "variable" THEN tok.value ELSE tok.name

\* C13: VARIABLE name, and a FUNCTION definition of name, raise
\* IdentifierPreviouslyDefinedException when name is a key of the dictionary
\* (bound by either kind of declaration) and leave the binding as it was;
\* when name is not a key they add it (a variable bound to the unassigned
\* sentinel, a function to its node), leave the stack unchanged and execute
\* no token of the function body.
C13_Declaration ==
    last.tok.kind \in {"variable", "function"}
    => IF InDict(Declared(last.tok), last.dictionary)
       THEN /\ err = "IdentifierPreviouslyDefinedException"
            /\ last.res.inmut = last.dictionary
            /\ stack = last.stack /\ dictionary = last.dictionary
       ELSE /\ err = "none"
            /\ stack = last.stack
            /\ dictionary = [last.dictionary EXCEPT ![Declared(last.tok)] =
                                 IF last.tok.kind = "variable" THEN VarUnassigned ELSE FnV(last.tok)]
            /\ last.res.trace = <<last.tok>>

\* VARIABLE Y has been executed when Y was bound to a function
C13_Witness ==
    /\ last.tok = VariableParserToken("Y")
    /\ last.dictionary["Y"] = FnV(UnaryEmptyFunction)
    /\ err = "IdentifierPreviouslyDefinedException"

\* the latest step replaced the binding of a name that was bound
Rebound(name) ==
    /\ err = "none"
    /\ InDict(name, last.dictionary)
    /\ dictionary[name] # last.dictionary[name]

\* an ASSIGN of the name was executed in the latest step
Assigned(name) ==
    \E i \in 1 .. Len(last.res.trace) :
        last.res.trace[i] = DictionaryOperatorParserToken("ASSIGN", name)

\* a parameter of the function called is a key of the call-site dictionary
ParameterBoundAtCallSite ==
    \E i \in 1 .. Len(LastCallee.a) : InDict(ParameterName(i), last.dictionary)

LastBound == last.dictionary[last.tok.value]

\* what visiting the function the latest Ident names returns
LastVisit == FunctionParserToken_visit(LastCallee, last.stack, last.dictionary, last.depth + 1)

\* C15: Ident(name) raises UndefinedIdentifierException and pushes nothing
\* when name is not a key; calls the function on the current stack when name
\* is bound to a function node (G() = 1 2 RETURN 2 leaves 1 and 2 on top of
\* the stack); and otherwise pushes the bound value, the unassigned sentinel
\* for a variable never assigned, on the unchanged stack and returns the
\* dictionary unchanged.
C15_Ident ==
    last.tok.kind = "ident"
    => IF ~InDict(last.tok.value, last.dictionary)
       THEN /\ err = "UndefinedIdentifierException"
            /\ stack = last.stack /\ dictionary = last.dictionary
            /\ last.res.trace = <<last.tok>>
       ELSE IF LastBound.t = "fn"
       THEN /\ err = LastVisit.err
            /\ last.res.trace = <<last.tok>> \o LastVisit.trace
            /\ err = "none" => (stack = LastVisit.stack /\ dictionary = LastVisit.dictionary)
            /\ LastCallee = ConstantFunction
               => (err = "none" /\ stack = last.stack \o <<IntV(1), IntV(2)>>)
       ELSE /\ err = "none"
            /\ stack = last.stack \o <<LastBound>>
            /\ dictionary = last.dictionary
            /\ last.res.trace = <<last.tok>>

\* an Ident has pushed the unassigned sentinel of a declared variable
C15_Witness ==
    /\ last.tok = IdentParserToken("X")
    /\ LastBound = VarUnassigned
    /\ err = "none"
    /\ stack = last.stack \o <<VarUnassigned>>

\* C16: ASSIGN name on a stack of at least one value removes exactly the top
\* value and returns a dictionary that maps name to it and equals the input
\* dictionary on every other key; an earlier value of name is replaced and
\* the rest of the stack is unchanged.
C16_Assign ==
    (/\ last.tok.kind = "dictionaryop"
     /\ last.tok.value = "ASSIGN"
     /\ LastLen >= 1)
    => /\ err = "none"
       /\ stack = LastWithout(1)
       /\ dictionary[last.tok.name] = LastFromTop(0)
       /\ \A name \in Names \ {last.tok.name} : dictionary[name] = last.dictionary[name]
       /\ last.res.inmut = last.dictionary

\* ASSIGN has replaced an earlier binding of its name, here to a function,
\* and left the value below the top on the stack
C16_Witness ==
    /\ last.tok = DictionaryOperatorParserToken("ASSIGN", "Y")
    /\ last.dictionary["Y"] = FnV(UnaryEmptyFunction)
    /\ LastLen = 2
    /\ err = "none"
    /\ dictionary["Y"] = LastFromTop(0)
    /\ stack = <<last.stack[1]>>

\* a boolean, or an integer a literal can denote
IsLiteralValue(val) == val.t = "bool" \/ (val.t = "int" /\ val.v \in 0 .. MaxNumber)

\* C17 as stated: every value on the stack is a boolean or an integer in
\* the range of a literal; no subtraction leaves a negative value, no
\* addition a value above the range, and the unassigned sentinel is never on
\* the stack.
C17_StackOfLiteralValues == \A i \in 1 .. Len(stack) : IsLiteralValue(stack[i])

\* C17 as amended: every value on the stack is a boolean, an integer or the
\* unassigned sentinel, never a function node; the integers are the host's:
\* a subtraction leaves the difference, negative when the top is the larger,
\* and an addition the sum, above the range of a literal when it is.
C17_StackOfHostValues ==
    /\ \A i \in 1 .. Len(stack) : stack[i].t \in {"bool", "int", "unassigned"}
    /\ (/\ last.tok.kind = "arithmetic"
        /\ LastLen >= 2
        /\ IsValue(LastFromTop(0)) /\ IsValue(LastFromTop(1)))
       => /\ err = "none"
          /\ Top(stack).t = "int"
          /\ Top(stack).v = IF last.tok.value = "+"
                            THEN LastFromTop(1).v + LastFromTop(0).v
                            ELSE LastFromTop(1).v - LastFromTop(0).v

\* an addition has left a value above the range of a literal on the stack
C17_Witness ==
    /\ last.tok = ArithmeticOperatorParserToken("+")
    /\ err = "none"
    /\ stack = <<IntV(MaxNumber + 1)>>

(***************************************************************************)
(* Properties of the lexer.  words holds the words of the line taken last, *)
(* and the tokens of that line carry its line number.                      *)
(***************************************************************************)
\* the tokens yielded for the line taken last
LineTokens == SelectSeq(tokens, LAMBDA token : token.debug_data = line_nr - 1)

\* the given words without the comment words
WithoutComments(words_) == SelectSeq(words_, LAMBDA word : ~IsComment(lex_word(word)))

\* the position of the first comment word, or one past the last word
FirstComment(words_) ==
    IF \E i \in 1 .. Len(words_) : IsComment(lex_word(words_[i]))
    THEN CHOOSE i \in 1 .. Len(words_) :
             /\ IsComment(lex_word(words_[i]))
             /\ \A j \in 1 .. i - 1 : ~IsComment(lex_word(words_[j]))
    ELSE Len(words_) + 1

\* the given words before the first comment word
BeforeComment(words_) == SubSeq(words_, 1, FirstComment(words_) - 1)

\* lex_line has returned from the line taken last
LineDone == line_nr > 0 /\ lexer \in {"_exhaustive_lex", "done"}

\* what the words of a line read
Contents(words_) == [i \in 1 .. Len(words_) |-> words_[i].content]

\* C18 as stated: a comment word suppresses only itself; when a line is done
\* the lexer has yielded the tokens of all its other words, those before and
\* those after the comment word, in their order.
C18_CommentOneWordWide == LineDone => LineTokens = Lexed(WithoutComments(words))

\* C18 as amended: a comment word suppresses itself and every later word of
\* its line; when a line is done the lexer has yielded the tokens of the
\* words before the first comment word, in their order, and no other.
C18_CommentLineWide == LineDone => LineTokens = Lexed(BeforeComment(words))

\* a line with a word before and a word after its comment word is done, and
\* only the word before has a token
C18_Witness ==
    /\ LineDone
    /\ Contents(words) = <<"2", "#", "X">>
    /\ LineTokens = <<LiteralLexerToken("NUMBER", Word("2", line_nr - 1))>>

\* C19: when lex_line meets a comment word it yields nothing and returns, so
\* the later words of the line are never taken; a token is yielded only for
\* the word lex_line takes, when it is no comment word; after the return the
\* lexer goes on with the first word of the next line or stops; a line that
\* begins with a comment word has no token.
C19_CommentEndsLine ==
    /\ [](/\ line_nr > 0
          /\ words # <<>>
          /\ IsComment(lex_word(Head(words)))
          => LineTokens = <<>>)
    /\ [][/\ (/\ lexer = "lex_line"
              /\ line # <<>>
              /\ IsComment(lex_word(Head(line))))
             => (tokens' = tokens /\ lexer' = "_exhaustive_lex")
          /\ tokens' # tokens
             => /\ lexer = "lex_line"
                /\ line # <<>>
                /\ ~IsComment(lex_word(Head(line)))
                /\ tokens' = Append(tokens, lex_word(Head(line)))
          /\ lexer = "_exhaustive_lex"
             => \/ lexer' = "done" /\ tokens' = tokens
                \/ /\ lexer' = "lex_line"
                   /\ line_nr' = line_nr + 1
                   /\ line' = words'
                   /\ \A i \in 1 .. Len(words') : words'[i].debug_data = line_nr
                   /\ tokens' = tokens]_vars

\* on the second line lex_line has yielded the token of the first word, met
\* the comment word and returned; the word after it is left untaken
C19_Witness ==
    /\ line_nr = 2
    /\ lexer = "_exhaustive_lex"
    /\ Contents(words) = <<"X", "#", "2">>
    /\ line = <<Word("2", 1)>>
    /\ tokens # <<>>
    /\ tokens[Len(tokens)] = IdentLexerToken(Word("X", 1))

(***************************************************************************)
(* Properties of the parser.  parsed holds the token of the latest         *)
(* top-level parse, the tokens that followed it and what the parse         *)
(* returned.  The properties read the source words of the tokens and of    *)
(* the parser tokens, and find the ends of an IF by counting.              *)
(***************************************************************************)
\* the source words of a token stream
StreamWords(tokens_) ==
    [i \in 1 .. Len(tokens_) |->
        IF tokens_[i].kind = "literal" THEN tokens_[i].content ELSE tokens_[i].value]

RECURSIVE Source(_), SourceAll(_)

\* the source words a parser token stands for
Source(tok) ==
    CASE tok.kind = "number" -> <<CHOOSE word \in NumberWords : int(word) = tok.num>>
      [] tok.kind = "if" ->
            <<"IF">> \o SourceAll(tok.a)
                \o (IF tok.has_else THEN <<"ELSE">> \o SourceAll(tok.b) ELSE <<>>)
                \o <<"THEN">>
      [] tok.kind = "while" ->
            <<"BEGIN">> \o SourceAll(tok.a) \o <<"WHILE">> \o SourceAll(tok.b) \o <<"REPEAT">>

\* the source words a list of parser tokens stands for
SourceAll(toks) == IF toks = <<>> THEN <<>> ELSE Source(Head(toks)) \o SourceAll(Tail(toks))

RECURSIVE Terminator(_, _, _), Closing(_, _, _)

\* the position, from i on, of the first ELSE or THEN that is not inside a
\* nested IF .. THEN (level counts the nested IFs that are open); 0 if none
Terminator(words_, i, level) ==
    IF i > Len(words_) THEN 0
    ELSE IF words_[i] = "IF" THEN Terminator(words_, i + 1, level + 1)
    ELSE IF words_[i] = "THEN" /\ level > 0 THEN Terminator(words_, i + 1, level - 1)
    ELSE IF words_[i] \in {"ELSE", "THEN"} /\ level = 0 THEN i
    ELSE Terminator(words_, i + 1, level)

\* the position, from i on, of the THEN that closes the IF the words follow,
\* every nested IF having been closed by a THEN of its own and no IF having
\* two ELSEs; open tells of each IF that is open (innermost first) whether
\* its ELSE has been met; 0 if there is no such THEN
Closing(words_, i, open) ==
    IF i > Len(words_) THEN 0
    ELSE CASE words_[i] = "IF" -> Closing(words_, i + 1, <<FALSE>> \o open)
           [] words_[i] = "ELSE" ->
                 IF Head(open) THEN 0 ELSE Closing(words_, i + 1, <<TRUE>> \o Tail(open))
           [] words_[i] = "THEN" ->
                 IF Len(open) = 1 THEN i ELSE Closing(words_, i + 1, Tail(open))
           [] words_[i] \in NumberWords -> Closing(words_, i + 1, open)
           [] OTHER -> 0

\* the latest top-level parse was that of an IF
ParsedIf == parsed.token # <<>> /\ parsed.token.kind = "keyword" /\ parsed.token.value = "IF"

\* C20: the parse of an IF followed by numbers, IFs, ELSEs and THENs returns
\* an If exactly when a THEN closes it, and then: the then-branch is what the
\* words before the first ELSE or THEN outside a nested IF parse to; there is
\* an else-branch exactly when that word is ELSE, and it is what the words
\* from there to the closing THEN parse to; the nested IFs are closed
\* innermost first, so that the If reads back as the words taken; the tokens
\* after the closing THEN are left in the stream; and an IF followed at once
\* by THEN, or by ELSE THEN, returns an If with empty branches.
C20_ParseIf ==
    ParsedIf =>
        LET given == StreamWords(parsed.tokens)
            closing == Closing(given, 1, <<FALSE>>)
            terminator == Terminator(given, 1, 0)
            node == parsed.res.val
        IN  /\ parsed.res.exc = "none" <=> closing > 0
            /\ parsed.res.exc = "none" =>
                  /\ node.kind = "if"
                  /\ Source(node) = <<"IF">> \o SubSeq(given, 1, closing)
                  /\ SourceAll(node.a) = SubSeq(given, 1, terminator - 1)
                  /\ node.has_else <=> given[terminator] = "ELSE"
                  /\ node.has_else =>
                        SourceAll(node.b) = SubSeq(given, terminator + 1, closing - 1)
                  /\ ~node.has_else => node.b = <<>> /\ terminator = closing
                  /\ parsed.res.rest = SubSeq(parsed.tokens, closing + 1, Len(parsed.tokens))
                  /\ stream = parsed.res.rest
                  /\ program # <<>> /\ program[Len(program)] = node
            /\ (given # <<>> /\ given[1] = "THEN")
                  => parsed.res.exc = "none" /\ node = IfParserToken(<<>>, <<>>, FALSE)
            /\ (Len(given) >= 2 /\ given[1] = "ELSE" /\ given[2] = "THEN")
                  => parsed.res.exc = "none" /\ node = IfParserToken(<<>>, <<>>, TRUE)

\* IF IF THEN ELSE THEN 1 has been parsed: an empty IF nested in the
\* then-branch, an empty else-branch, and the 1 left in the stream
C20_Witness ==
    /\ ParsedIf
    /\ StreamWords(parsed.tokens) = <<"IF", "THEN", "ELSE", "THEN", "1">>
    /\ parsed.res.exc = "none"
    /\ program = <<IfParserToken(<<IfParserToken(<<>>, <<>>, FALSE)>>, <<>>, TRUE)>>
    /\ StreamWords(stream) = <<"1">>

\* C21: when the token stream runs out inside a construct, Parser.parse
\* raises a missing-token error: the parse does not end with a program that
\* lacks the construct whose parse was begun last.
C21_MissingToken ==
    (parser = "done" /\ parsed.token # <<>>)
    => /\ parsed.res.exc = "none"
       /\ program # <<>>
       /\ program[Len(program)] = parsed.res.val

\* the latest top-level parse was that of the given keyword
ParsedKeyword(type) ==
    parsed.token # <<>> /\ parsed.token.kind = "keyword" /\ parsed.token.value = type

\* a token the lexer made of a word of digits
IsNumberLiteral(token) ==
    token.kind = "literal" /\ token.value = "NUMBER" /\ isdigit(token.content)

RECURSIVE ReturnCounts(_)

\* the counts of the Return nodes in a list of parser tokens, at any depth
ReturnCounts(toks) ==
    IF toks = <<>> THEN {}
    ELSE LET tok == Head(toks)
         IN  (IF tok.kind = "return" THEN {tok.num} ELSE {})
                 \cup ReturnCounts(tok.a) \cup ReturnCounts(tok.b) \cup ReturnCounts(Tail(toks))

ParsedBody == eat_until_discarding(SubSeq(parsed.tokens, 4, Len(parsed.tokens)), {"|"})

\* C23: the parse of a well-delimited FUNCTION returns the function when its
\* body contains a Return node, be it inside an IF or a WHILE of the body,
\* and raises NoReturnTokenError when it contains none.
C23_ReturnInBody ==
    (/\ ParsedKeyword("|")
     /\ Len(parsed.tokens) >= 4
     /\ ParsedBody.exc = "none")
    => IF ReturnCounts(ParsedBody.val) # {}
       THEN /\ parsed.res.exc = "none"
            /\ parsed.res.val = FunctionParserToken("F", <<>>, ParsedBody.val)
       ELSE raised = "NoReturnTokenError"

\* the latest top-level parse was that of a number literal, of a word of
\* digits
ParsedNumber == parsed.token # <<>> /\ IsNumberLiteral(parsed.token)

\* C24: lex_word makes a number literal of every word of digits, whatever
\* its value, and raises nothing; the parse of the literal of a number n
\* returns Number(n) when n is at most the largest literal and raises
\* ValueError when n is larger.
C24_NumberLiteral ==
    /\ \A word \in NumberWords :
          lex_word(Word(word, 0)) = LiteralLexerToken("NUMBER", Word(word, 0))
    /\ ParsedNumber =>
          LET n == int(parsed.token.content)
          IN  IF n <= MaxNumber
              THEN /\ parsed.res = Returned(NumberParserToken(n), "", parsed.tokens)
                   /\ raised = "none"
              ELSE raised = "ValueError" /\ program = <<>>

\* the largest literal has been parsed to its Number
C24_Witness ==
    /\ ParsedNumber
    /\ int(parsed.token.content) = MaxNumber
    /\ program = <<NumberParserToken(MaxNumber)>>

\* the latest token was a While whose predicate, evaluated on the state the
\* While was entered with, raised nothing and had False as its outcome
PredicateFalse ==
    /\ last.tok.kind = "while"
    /\ LET p == exhaustive_interpret_tokens(last.tok.a, last.stack, last.dictionary,
                                            last.depth + 1)
       IN  /\ p.err = "none"
           /\ p.stack # <<>>
           /\ p.stack[1] = BoolV(FALSE)

\* C26: evaluating the predicate of a While changes nothing of the live
\* state, whatever the predicate declares: a While whose predicate is false
\* returns exactly the stack and the dictionary it was entered with.
C26_PredicateLeavesState ==
    PredicateFalse => /\ err = "none"
                      /\ stack = last.stack
                      /\ dictionary = last.dictionary

\* the latest token was an identifier bound to a function, and the call
\* completed
CompletedCall ==
    /\ last.tok.kind = "ident"
    /\ InDict(last.tok.value, last.dictionary)
    /\ last.dictionary[last.tok.value].t = "fn"
    /\ err = "none"

\* the function the latest token called
Called == last.dictionary[last.tok.value].node[1]

\* the places of the RETURN tokens among the tokens of a body
Returns(body) == {i \in 1 .. Len(body) : body[i].kind = "return"}

\* the place of the first RETURN of a body that has one
FirstReturn(body) == CHOOSE i \in Returns(body) : \A j \in Returns(body) : i <= j

\* the stack the caller keeps: its stack without the arguments
Remaining ==
    FunctionParserToken_setup_parameters(Called, last.stack, last.dictionary, last.depth + 2)

\* the body of the called function up to and including its first RETURN,
\* run as the call runs it
UpToReturn ==
    exhaustive_interpret_tokens(SubSeq(Called.b, 1, FirstReturn(Called.b)),
                                Remaining.stack, Remaining.dictionary, last.depth + 2)

\* C28: when a RETURN count has executed in the body of a function, the
\* completed call leaves the top count values of the moment of the RETURN on
\* top of the caller's remaining stack, whatever tokens follow the RETURN
\* in the body, and so at most three values.
C28_ReturnFixesResult ==
    (CompletedCall /\ Returns(Called.b) # {})
    => /\ stack = Remaining.stack \o UpToReturn.stack
       /\ Len(UpToReturn.stack) = Called.b[FirstReturn(Called.b)].num
       /\ Len(stack) - Len(Remaining.stack) <= 3

\* the latest token was a While whose predicate, evaluated on the state the
\* While was entered with, raised nothing and returned an empty stack
PredicateEmpty ==
    /\ last.tok.kind = "while"
    /\ LET p == exhaustive_interpret_tokens(last.tok.a, last.stack, last.dictionary,
                                            last.depth + 1)
       IN  p.err = "none" /\ p.stack = <<>>

\* C30: an If executed on an empty stack and a While whose predicate
\* leaves an empty stack fail with StackSizeException; neither reads a
\* place of the stack that does not exist.
C30_EmptyStackSize ==
    /\ (last.tok.kind = "if" /\ last.stack = <<>>) => err = "StackSizeException"
    /\ PredicateEmpty => err = "StackSizeException"
    /\ last.tok.kind \in {"if", "while"} => err # "IndexError"

(***************************************************************************)
(* Properties of the compiler.                                             *)
(***************************************************************************)
\* some token of the list, or of the bodies, branches and predicates of its
\* tokens, is of one of the kinds (the parameters of a function are not
\* compiled as tokens and are not looked at)
RECURSIVE HasKind(_, _)
HasKind(tokens_, kinds) ==
    \E i \in 1 .. Len(tokens_) :
        \/ tokens_[i].kind \in kinds
        \/ tokens_[i].kind \in {"if", "while"} /\ HasKind(tokens_[i].a, kinds)
        \/ tokens_[i].kind \in {"if", "while", "function"} /\ HasKind(tokens_[i].b, kinds)

\* the kinds of the nodes _compile_token has no function for
NoRule == {"variable", "value", "dictionaryop"}

\* Compiler.compile has been called for the Cortex-M0
CompileCalled == compiler # "idle" /\ target = "cortex-m0"

\* C25: compiling a program that contains a node without an assembly rule,
\* a Variable, a Value or an ASSIGN anywhere or a Return at top level,
\* raises the "cannot compile" RuntimeError and returns no assembly.
C25_CannotCompile ==
    (/\ CompileCalled
     /\ \/ HasKind(ast, NoRule)
        \/ \E i \in 1 .. Len(ast) : ast[i].kind = "return")
    => /\ compiler = "raised"
       /\ compiled = CompileRaised("RuntimeError")

\* C29: compiling for the Cortex-M0 returns assembly for every program with
\* an If, with or without ELSE, whose other nodes have assembly rules; the
\* else block of an If without ELSE is empty, the end-of-if label follows
\* the else label at once.
C29_IfCompiles ==
    (CompileCalled /\ HasKind(ast, {"if"}) /\ ~HasKind(ast, NoRule))
    => /\ compiler = "compiled"
       /\ \A i \in 1 .. Len(ast) :
             (ast[i].kind = "if" /\ ~ast[i].has_else)
             => /\ LineOf(compiled.asm, Label("else_body_of_if_on_line", "", <<i>>)) > 0
                /\ LineOf(compiled.asm, Label("end_if_on_line", "", <<i>>))
                     = LineOf(compiled.asm, Label("else_body_of_if_on_line", "", <<i>>)) + 1

\* what the interpreter makes of the program given to the compiler
Interpreted == exhaustive_interpret_tokens(ast, <<>>, EmptyDict, 1)

\* C27: for a program the compiler has rules for and the interpreter runs
\* to its end, the assembly pushes and pops only what the interpreter pushes
\* and pops: the machine never pops a value the program has not pushed,
\* at the end of the program the pushes less the pops are the length of the
\* interpreter's stack, and every  mov pc  at the end of a function moves
\* the link-register value the function was entered with.
C27_StackEffect ==
    (compiler = "compiled" /\ Interpreted.err = "none")
    => /\ m0.state = "running"
       /\ Halted(compiled.asm, m0) => m0.net = Len(Interpreted.stack)
       /\ \A k \in 1 .. Len(m0.moved) : m0.moved[k].to = m0.moved[k].lr

====
